---- MODULE Spec2Model ----
(***************************************************************************)
(* Incremental metadata-driven merge engine of kospi_futures_quant_project *)
(* (src/utils/metadata_manager.py, src/utils/incremental_utils.py).        *)
(*                                                                         *)
(* Text is modelled as a sequence of ASCII codes, so that the string sort  *)
(* of merge_csv_data and the text round trip through a CSV file are        *)
(* computed, not assumed.  A DataFrame is [cols, rows]; a cell is          *)
(* [ty, txt] with ty the Python type of the value and txt its str().       *)
(***************************************************************************)
EXTENDS Integers, Sequences, FiniteSets, TLC

(***************************************************************************)
(* Bounds of the model                                                     *)
(***************************************************************************)
MaxRows == 2       \* rows of an input frame of the merge specification
MaxNew == 1        \* rows of a fetched frame of the save specification
MaxItems == 2      \* datasets saved over all calls of the save
MaxAppends == 52   \* entries appended to the history of one dataset
MaxCalls == 4      \* calls made through the circuit breaker
MaxClock == 3      \* readings of time.time() seen by the response cache
MaxErrors == 25    \* errors reported in a row to the rate limiter
MaxSpan == 400     \* days between start_date and end_date of a split
FailureThreshold == 2   \* failure_threshold of the circuit breaker
MaxSize == 2       \* max_size of the response cache
TtlSeconds == 1    \* ttl_seconds of the response cache

(***************************************************************************)
(* Text                                                                    *)
(***************************************************************************)
D1 == <<50, 48, 50, 52, 48, 49, 48, 49>>   \* "20240101"
D2 == <<50, 48, 50, 52, 48, 49, 48, 50>>   \* "20240102"
T1 == <<48, 57, 48, 48>>                   \* "0900"
T2 == <<49, 48, 48, 48>>                   \* "1000"
NanText == <<110, 97, 110>>                \* "nan"
DotZero == <<46, 48>>                      \* ".0"

IsDigits(s) == Len(s) > 0 /\ \A i \in 1..Len(s) : s[i] \in 48..57

IsFloatText(s) ==
    /\ Len(s) >= 3
    /\ SubSeq(s, Len(s) - 1, Len(s)) = DotZero
    /\ IsDigits(SubSeq(s, 1, Len(s) - 2))

IsNAText(s) == s = <<>> \/ s = NanText

RECURSIVE StripZeros(_)
StripZeros(s) == IF Len(s) > 1 /\ s[1] = 48 THEN StripZeros(Tail(s)) ELSE s

\* Python's str < str: lexicographic on code points.
RECURSIVE StrLess(_, _)
StrLess(a, b) ==
    IF b = <<>> THEN FALSE
    ELSE IF a = <<>> THEN TRUE
    ELSE IF a[1] # b[1] THEN a[1] < b[1]
    ELSE StrLess(Tail(a), Tail(b))

StrLeq(a, b) == a = b \/ StrLess(a, b)

(***************************************************************************)
(* Cells, rows, frames                                                     *)
(***************************************************************************)
NoCell == [ty |-> "none", txt |-> <<>>]    \* the column does not exist
NaN == [ty |-> "nan", txt |-> NanText]
IntCell(s) == [ty |-> "int", txt |-> StripZeros(s)]
FloatCell(s) == [ty |-> "float", txt |-> StripZeros(s) \o DotZero]
StrCell(s) == [ty |-> "str", txt |-> s]

EmptyFrame == [cols |-> {}, rows |-> <<>>]     \* pd.DataFrame()
IsEmpty(df) == df.rows = <<>>                  \* DataFrame.empty

Columns == {"date", "time", "px"}
KeyColumns == {"date", "time"}

\* Cell of column col in a row; rows are records [date, time, px].
Cell(row, col) == IF col = "date" THEN row.date ELSE row.time

(***************************************************************************)
(* The table file: DataFrame.to_csv and pd.read_csv                        *)
(***************************************************************************)
NoFile == [exists |-> FALSE, cols |-> {}, rows |-> <<>>]

\* What to_csv writes for one cell: NaN is written as the empty field.
CellText(c) == IF c.ty \in {"nan", "none"} THEN <<>> ELSE c.txt

\* df.to_csv(csv_path, index=False): the file holds the text of every cell.
\* A frame without columns is written as a blank file.
ToCsv(df) ==
    [exists |-> TRUE,
     cols |-> df.cols,
     rows |-> [i \in 1..Len(df.rows) |->
                 [date |-> CellText(df.rows[i].date),
                  time |-> CellText(df.rows[i].time),
                  px |-> df.rows[i].px]]]

\* pd.read_csv raises EmptyDataError on a file with no header line.
CanRead(file) == file.exists /\ file.cols # {}

\* Type inference of read_csv for one column of the file.
ColKind(file, col) ==
    LET texts == {Cell(file.rows[i], col) : i \in 1..Len(file.rows)}
    IN  IF \A t \in texts : IsDigits(t) THEN "int"
        ELSE IF \A t \in texts : IsNAText(t) \/ IsDigits(t) \/ IsFloatText(t)
             THEN "float"
             ELSE "object"

IntegerPart(s) == IF IsFloatText(s) THEN SubSeq(s, 1, Len(s) - 2) ELSE s

ParseCell(kind, s) ==
    IF kind = "int" THEN IntCell(s)
    ELSE IF IsNAText(s) THEN NaN
    ELSE IF kind = "float" THEN FloatCell(IntegerPart(s))
    ELSE StrCell(s)

\* pd.read_csv(csv_path) of a readable file.
ReadCsv(file) ==
    [cols |-> file.cols,
     rows |-> [i \in 1..Len(file.rows) |->
                 [date |-> IF "date" \in file.cols
                           THEN ParseCell(ColKind(file, "date"), file.rows[i].date)
                           ELSE NoCell,
                  time |-> IF "time" \in file.cols
                           THEN ParseCell(ColKind(file, "time"), file.rows[i].time)
                           ELSE NoCell,
                  px |-> file.rows[i].px]]]

(***************************************************************************)
(* pandas operations used by merge_csv_data                                *)
(***************************************************************************)
\* dtype of a column of a frame.
Dtype(df, col) ==
    LET tys == {Cell(df.rows[i], col).ty : i \in 1..Len(df.rows)}
    IN  IF col \notin df.cols THEN "missing"
        ELSE IF tys \subseteq {"int"} THEN "int64"
        ELSE IF tys \subseteq {"float", "nan"} THEN "float64"
        ELSE "object"

\* dtype of the column after pd.concat of two frames.
ConcatDtype(a, b) ==
    IF a = "object" \/ b = "object" THEN "object"
    ELSE IF a = "int64" /\ b = "int64" THEN "int64"
    ELSE "float64"

CastCell(c, dtype) ==
    IF c.ty = "none" THEN NaN
    ELSE IF dtype = "float64" /\ c.ty = "int" THEN FloatCell(c.txt)
    ELSE c

\* pd.concat([existing_df, new_df], ignore_index=True)
Concat(a, b) ==
    LET cols == a.cols \cup b.cols
        dt(col) == ConcatDtype(Dtype(a, col), Dtype(b, col))
        cast(row) ==
            [date |-> IF "date" \in cols THEN CastCell(row.date, dt("date")) ELSE NoCell,
             time |-> IF "time" \in cols THEN CastCell(row.time, dt("time")) ELSE NoCell,
             px |-> row.px]
    IN  [cols |-> cols,
         rows |-> [i \in 1..(Len(a.rows) + Len(b.rows)) |->
                     IF i <= Len(a.rows) THEN cast(a.rows[i])
                     ELSE cast(b.rows[i - Len(a.rows)])]]

\* Two rows have the same key on the columns of subset (Python == of the cells:
\* the int 20240101 and the str "20240101" are different keys).
SameKey(r1, r2, subset) == \A col \in subset : Cell(r1, col) = Cell(r2, col)

RECURSIVE SelectRows(_, _, _)
SelectRows(rows, keep, i) ==
    IF i > Len(rows) THEN <<>>
    ELSE (IF keep[i] THEN <<rows[i]>> ELSE <<>>) \o SelectRows(rows, keep, i + 1)

\* Mutant: keep=False, every row of a duplicated key is dropped.
DropDuplicates_KeepNone(df, subset) ==
    LET n == Len(df.rows)
        keep == [i \in 1..n |->
                   ~ \E j \in 1..n : j # i /\ SameKey(df.rows[i], df.rows[j], subset)]
    IN  [df EXCEPT !.rows = SelectRows(df.rows, keep, 1)]

\* df.drop_duplicates(subset=subset, keep="last")
DropDuplicatesKeepLast(df, subset) ==
    LET n == Len(df.rows)
        keep == [i \in 1..n |->
                   ~ \E j \in (i + 1)..n : SameKey(df.rows[i], df.rows[j], subset)]
    IN  [df EXCEPT !.rows = SelectRows(df.rows, keep, 1)]

\* merged_df[col] = merged_df[col].astype(str) for every col of subset
AsTypeStr(df, subset) ==
    LET conv(c) == StrCell(c.txt)
    IN  [df EXCEPT !.rows =
            [i \in 1..Len(df.rows) |->
               [date |-> IF "date" \in subset THEN conv(df.rows[i].date)
                         ELSE df.rows[i].date,
                time |-> IF "time" \in subset THEN conv(df.rows[i].time)
                         ELSE df.rows[i].time,
                px |-> df.rows[i].px]]]

\* Order of sort_values(by=[date]) or sort_values(by=[date, time]) on str cells.
RowLess(r1, r2, subset) ==
    \/ StrLess(r1.date.txt, r2.date.txt)
    \/ /\ "time" \in subset
       /\ r1.date.txt = r2.date.txt
       /\ StrLess(r1.time.txt, r2.time.txt)

RECURSIVE InsertRow(_, _, _)
InsertRow(sorted, row, subset) ==
    IF sorted = <<>> THEN <<row>>
    ELSE IF RowLess(row, sorted[Len(sorted)], subset)
         THEN InsertRow(SubSeq(sorted, 1, Len(sorted) - 1), row, subset)
                  \o <<sorted[Len(sorted)]>>
         ELSE sorted \o <<row>>

RECURSIVE SortRows(_, _)
SortRows(rows, subset) ==
    IF rows = <<>> THEN <<>>
    ELSE InsertRow(SortRows(SubSeq(rows, 1, Len(rows) - 1), subset),
                   rows[Len(rows)], subset)

\* merged_df.sort_values(by=subset).reset_index(drop=True)
SortValues(df, subset) == [df EXCEPT !.rows = SortRows(df.rows, subset)]

(***************************************************************************)
(* MetadataManager.merge_csv_data                                          *)
(***************************************************************************)
\* dedup_columns: [date, time] when a time column is given and present.
DedupColumns(merged_df, time_column) ==
    IF time_column /\ "time" \in merged_df.cols THEN {"date", "time"} ELSE {"date"}

\* Lines 445-471: drop duplicates keeping the last row of a key, then turn
\* the key columns into str and sort by them.
DedupAndSort(merged_df, dedup_columns) ==
    SortValues(AsTypeStr(DropDuplicatesKeepLast(merged_df, dedup_columns),
                         dedup_columns),
               dedup_columns)

\* The except branch of merge_csv_data: only the new rows are returned.
MergeFallback(new_df) == IF ~IsEmpty(new_df) THEN new_df ELSE EmptyFrame

\* Lines 431-471: concatenate, and when the date column is there drop the
\* duplicates and sort.
MergeRows(existing_df, new_df, time_column) ==
    LET merged_df == IF IsEmpty(existing_df) THEN new_df
                     ELSE Concat(existing_df, new_df)
    IN  IF "date" \in merged_df.cols
        THEN DedupAndSort(merged_df, DedupColumns(merged_df, time_column))
        ELSE merged_df

\* Mutant: the new batch is merged also when it is empty.
MergeCsvData_AlwaysMerges(file, new_df, time_column, io_error) ==
    IF file.exists /\ (io_error \/ ~CanRead(file)) THEN MergeFallback(new_df)
    ELSE MergeRows(IF file.exists THEN ReadCsv(file) ELSE EmptyFrame,
                   new_df, time_column)

\* merge_csv_data(existing_csv_path, new_df, date_column, time_column).
\* io_error: reading the existing file raised for a reason other than its
\* content.  time_column is TRUE when a time column name is given.
MergeCsvData(file, new_df, time_column, io_error) ==
    IF file.exists /\ (io_error \/ ~CanRead(file)) THEN MergeFallback(new_df)
    ELSE LET existing_df == IF file.exists THEN ReadCsv(file) ELSE EmptyFrame
         IN  IF IsEmpty(new_df) THEN existing_df
             ELSE MergeRows(existing_df, new_df, time_column)

(***************************************************************************)
(* Calendar dates (datetime.strptime / pd.to_datetime with %Y%m%d)         *)
(***************************************************************************)
RECURSIVE Num(_)
Num(s) == IF s = <<>> THEN 0 ELSE 10 * Num(SubSeq(s, 1, Len(s) - 1)) + (s[Len(s)] - 48)

IsLeap(y) == (y % 4 = 0 /\ y % 100 # 0) \/ y % 400 = 0

DaysInMonth(y, m) ==
    IF m = 2 THEN (IF IsLeap(y) THEN 29 ELSE 28)
    ELSE IF m \in {4, 6, 9, 11} THEN 30 ELSE 31

RECURSIVE DaysBeforeMonth(_, _)
DaysBeforeMonth(y, m) ==
    IF m <= 1 THEN 0 ELSE DaysBeforeMonth(y, m - 1) + DaysInMonth(y, m - 1)

\* date.toordinal(): days since 0001-01-01, that day being 1.
Ordinal(y, m, d) ==
    LET p == y - 1
    IN  p * 365 + (p \div 4) - (p \div 100) + (p \div 400) + DaysBeforeMonth(y, m) + d

IsDateText(s) ==
    /\ Len(s) = 8
    /\ IsDigits(s)
    /\ Num(SubSeq(s, 1, 4)) >= 1
    /\ Num(SubSeq(s, 5, 6)) \in 1..12
    /\ Num(SubSeq(s, 7, 8)) \in 1..DaysInMonth(Num(SubSeq(s, 1, 4)), Num(SubSeq(s, 5, 6)))

DateOrdinal(s) == Ordinal(Num(SubSeq(s, 1, 4)), Num(SubSeq(s, 5, 6)), Num(SubSeq(s, 7, 8)))

\* The decimal digits of n, zero padded to width w.
RECURSIVE Pad(_, _)
Pad(n, w) == IF w = 0 THEN <<>> ELSE Pad(n \div 10, w - 1) \o <<48 + (n % 10)>>

\* strftime("%Y%m%d") of a date.
FormatDate(y, m, d) == Pad(y, 4) \o Pad(m, 2) \o Pad(d, 2)

\* Mutant: the day number is incremented without carrying into the month.
NextDay_NoCarry(s) ==
    <<Num(SubSeq(s, 1, 4)), Num(SubSeq(s, 5, 6)), Num(SubSeq(s, 7, 8)) + 1>>

\* datetime.strptime(s, "%Y%m%d") + timedelta(days=1), as (y, m, d).
NextDay(s) ==
    LET y == Num(SubSeq(s, 1, 4))
        m == Num(SubSeq(s, 5, 6))
        d == Num(SubSeq(s, 7, 8))
    IN  IF d < DaysInMonth(y, m) THEN <<y, m, d + 1>>
        ELSE IF m < 12 THEN <<y, m + 1, 1>>
        ELSE <<y + 1, 1, 1>>

(***************************************************************************)
(* MetadataManager.validate_merged_data                                    *)
(***************************************************************************)
GapDays == 7

\* Some two neighbouring dates of the sorted, parsable dates are more than
\* GapDays days apart.
HasLargeGap(merged_df) ==
    LET days == {DateOrdinal(merged_df.rows[i].date.txt) :
                    i \in {j \in 1..Len(merged_df.rows) :
                              IsDateText(merged_df.rows[j].date.txt)}}
    IN  \E a \in days, b \in days :
            /\ b - a > GapDays
            /\ ~ \E c \in days : a < c /\ c < b

\* merged_df.duplicated(subset=[date_column], keep=False).any()
HasDuplicatedDate(merged_df) ==
    \E i \in 1..Len(merged_df.rows), j \in 1..Len(merged_df.rows) :
        i # j /\ merged_df.rows[i].date = merged_df.rows[j].date

\* Mutant: an empty merged table and leftover duplicates are hard failures.
ValidateMergedData_Strict(old_df, new_df, merged_df) ==
    LET nOld == Len(old_df.rows)
        nNew == Len(new_df.rows)
        nMerged == Len(merged_df.rows)
        hasDate == "date" \in merged_df.cols
        bad == IsEmpty(merged_df) \/ ~hasDate \/ HasDuplicatedDate(merged_df)
    IN  [is_valid |-> ~bad,
         warnings |-> {},
         errors |-> IF bad THEN {"no_date_column"} ELSE {},
         stats |-> [old_records |-> nOld,
                    new_records |-> nNew,
                    merged_records |-> nMerged]]

\* validate_merged_data(old_df, new_df, merged_df, date_column)
ValidateMergedData(old_df, new_df, merged_df) ==
    LET nOld == Len(old_df.rows)
        nNew == Len(new_df.rows)
        nMerged == Len(merged_df.rows)
        expected_min == IF nOld = 0 THEN nNew ELSE nOld
        expected_max == nOld + nNew
        hasDate == "date" \in merged_df.cols
    IN  [is_valid |-> ~(~IsEmpty(merged_df) /\ ~hasDate),
         warnings |->
             (IF nMerged < expected_min THEN {"fewer"} ELSE {})
             \cup (IF nMerged > expected_max THEN {"more"} ELSE {})
             \cup (IF hasDate /\ ~IsEmpty(merged_df) /\ HasLargeGap(merged_df)
                   THEN {"gap"} ELSE {})
             \cup (IF hasDate /\ HasDuplicatedDate(merged_df)
                   THEN {"duplicates"} ELSE {})
             \cup (IF IsEmpty(merged_df) THEN {"empty"} ELSE {}),
         errors |-> IF ~IsEmpty(merged_df) /\ ~hasDate THEN {"no_date_column"} ELSE {},
         stats |-> [old_records |-> nOld,
                    new_records |-> nNew,
                    merged_records |-> nMerged]]

(***************************************************************************)
(* Descriptors and history                                                 *)
(***************************************************************************)
HistoryCap == 50
NoDate == <<>>                         \* None as a date string
NoRange == [start |-> NoDate, end |-> NoDate]

\* last_update_<code>.json does not exist.
NoDescriptor ==
    [exists |-> FALSE, total_records |-> 0, date_range |-> NoRange,
     collection_mode |-> "none", new_records_added |-> 0, stamp |-> 0]

\* The smallest / largest text of a non-empty set of texts.
MinText(S) == CHOOSE a \in S : \A b \in S : StrLeq(a, b)
MaxText(S) == CHOOSE a \in S : \A b \in S : StrLeq(b, a)

\* Mutant: the dates are sorted in descending order.
GetCsvDateRange_Descending(file) ==
    IF ~file.exists \/ ~CanRead(file) THEN NoRange
    ELSE LET df == ReadCsv(file)
             dates == {df.rows[i].date.txt :
                          i \in {j \in 1..Len(df.rows) :
                                    /\ df.rows[j].date.ty \notin {"nan", "none"}
                                    /\ Len(df.rows[j].date.txt) >= 8
                                    /\ IsDigits(df.rows[j].date.txt)}}
         IN  IF "date" \notin df.cols \/ IsEmpty(df) \/ dates = {} THEN NoRange
             ELSE [start |-> MaxText(dates), end |-> MinText(dates)]

\* get_csv_date_range(csv_path, date_column)
GetCsvDateRange(file) ==
    IF ~file.exists \/ ~CanRead(file) THEN NoRange
    ELSE LET df == ReadCsv(file)
             dates == {df.rows[i].date.txt :
                          i \in {j \in 1..Len(df.rows) :
                                    /\ df.rows[j].date.ty \notin {"nan", "none"}
                                    /\ Len(df.rows[j].date.txt) >= 8
                                    /\ IsDigits(df.rows[j].date.txt)}}
         IN  IF "date" \notin df.cols \/ IsEmpty(df) \/ dates = {} THEN NoRange
             ELSE [start |-> MinText(dates), end |-> MaxText(dates)]

\* len(pd.read_csv(csv_path)), 0 when the file is absent or unreadable.
CountRecords(file) == IF CanRead(file) THEN Len(ReadCsv(file).rows) ELSE 0

\* create_update_info(feature_name, code, csv_path, date_column)
CreateUpdateInfo(file, now) ==
    [exists |-> TRUE,
     total_records |-> CountRecords(file),
     date_range |-> IF CanRead(file) THEN GetCsvDateRange(file) ELSE NoRange,
     collection_mode |-> "full",
     new_records_added |-> 0,
     stamp |-> now]

\* Mutant: total_records is the count the caller passes.
UpdatedInfo_CallerCount(last_info, file, new_records, now) ==
    LET base == IF last_info.exists THEN last_info ELSE CreateUpdateInfo(file, now)
    IN  [base EXCEPT !.total_records = new_records,
                     !.date_range = GetCsvDateRange(file),
                     !.collection_mode = "incremental",
                     !.new_records_added = new_records,
                     !.stamp = now]

\* The descriptor update_metadata_incremental saves (lines 649-692).
UpdatedInfo(last_info, file, new_records, now) ==
    LET base == IF last_info.exists THEN last_info ELSE CreateUpdateInfo(file, now)
    IN  [base EXCEPT !.total_records = CountRecords(file),
                     !.date_range = GetCsvDateRange(file),
                     !.collection_mode = "incremental",
                     !.new_records_added = new_records,
                     !.stamp = now]

LastN(seq, n) == IF Len(seq) <= n THEN seq ELSE SubSeq(seq, Len(seq) - n + 1, Len(seq))

\* Mutant: the oldest HistoryCap entries are kept (history[:50]).
AddToHistory_KeepsOldest(hist, info) ==
    SubSeq(Append(hist, [stamp |-> info.stamp,
                         records |-> info.total_records,
                         mode |-> info.collection_mode,
                         date_range |-> info.date_range]),
           1, IF Len(hist) + 1 <= HistoryCap THEN Len(hist) + 1 ELSE HistoryCap)

\* add_to_history: append the entry and keep the most recent HistoryCap.
AddToHistory(hist, info) ==
    LastN(Append(hist, [stamp |-> info.stamp,
                        records |-> info.total_records,
                        mode |-> info.collection_mode,
                        date_range |-> info.date_range]),
          HistoryCap)

(***************************************************************************)
(* Backup and rollback                                                     *)
(***************************************************************************)
\* shutil.copy2(csv_path, backup_path): the backup holds the table's content.
BackupCopy(file) == file

\* Mutant: the backup is removed and the table is left as the failed write
\* left it.
RollbackMove_KeepsTable(tableFile, backupFile) ==
    [table |-> tableFile, backup |-> NoFile]

\* shutil.move(backup_path, csv_path): the table holds the backup's content
\* and the backup is gone.
RollbackMove(tableFile, backupFile) == [table |-> backupFile, backup |-> NoFile]

\* Mutant: the backup is moved only when no file is in the way.
RollbackFromBackup_NoClobber(tableFile, backupFile) ==
    IF ~backupFile.exists \/ tableFile.exists
    THEN [table |-> tableFile, backup |-> backupFile, ok |-> FALSE]
    ELSE [table |-> backupFile, backup |-> NoFile, ok |-> TRUE]

\* rollback_from_backup(csv_path, backup_path): False when the backup file is
\* not there, else the move and True.
RollbackFromBackup(tableFile, backupFile) ==
    IF ~backupFile.exists
    THEN [table |-> tableFile, backup |-> backupFile, ok |-> FALSE]
    ELSE [table |-> RollbackMove(tableFile, backupFile).table,
          backup |-> RollbackMove(tableFile, backupFile).backup,
          ok |-> TRUE]

\* What a to_csv that raises can leave at csv_path: the file as it was (the
\* open failed) or the header and a strict prefix of the rows.
PartialWrites(old, df) ==
    {old} \cup {[exists |-> TRUE, cols |-> df.cols,
                 rows |-> SubSeq(ToCsv(df).rows, 1, k)] : k \in 0..(Len(df.rows) - 1)}

(***************************************************************************)
(* Input frames                                                            *)
(***************************************************************************)
Dates == {D1, D2}
Times == {T1, T2}
KeyTypes == {"str", "int"}

TypedCell(ty, s) == IF ty = "int" THEN IntCell(s) ELSE StrCell(s)

\* Frames of exactly n rows over the columns cols whose key cells have the
\* Python type ty; row i carries the payload base + i.
FramesOfLen(cols, ty, n, base) ==
    {[cols |-> cols,
      rows |-> [i \in 1..n |->
                  [date |-> IF "date" \in cols THEN TypedCell(ty, d[i]) ELSE NoCell,
                   time |-> IF "time" \in cols THEN TypedCell(ty, t[i]) ELSE NoCell,
                   px |-> base + i]]] :
        d \in [1..n -> IF "date" \in cols THEN Dates ELSE {<<>>}],
        t \in [1..n -> IF "time" \in cols THEN Times ELSE {<<>>}]}

FramesUpTo(cols, ty, max, base) ==
    UNION {FramesOfLen(cols, ty, n, base) : n \in 0..max}

(***************************************************************************)
(* State                                                                   *)
(***************************************************************************)
Codes == {"A", "B"}
\* Orders of the keys of data_dict: one dataset, or two in either order.
CodeOrders == {<<"A">>, <<"A", "B">>, <<"B", "A">>}

VARIABLES
    table,              \* [code -> file]: <save_dir>/<code>.csv
    backup,             \* [code -> file]: <code>_backup_<timestamp>.csv of the run
    meta,               \* [code -> descriptor]: last_update_<code>.json
    history,            \* [code -> sequence]: update_history_<code>.json
    pc,                 \* position in save_feature_to_csv_incremental
    batches,            \* calls made so far; also the clock of datetime.now()
    items,              \* datasets handed to the save so far
    data_dict,          \* [code -> frame]: the argument data_dict
    todo,               \* codes of data_dict still to be processed, in order
    cur,                \* code of the current iteration
    incremental_mode,
    backup_enabled,
    time_column,        \* TRUE when a time column name is passed
    backup_path,        \* TRUE when backup_path is not None
    existing_df,
    merged_df,
    validation_result,
    results,
    pre,                \* history variable: the files of cur before its iteration
    run,                \* history variable: what happened in the iteration of cur
    m_pc,               \* merge specification: position
    m_file,             \* merge specification: the existing table file
    m_new,              \* merge specification: new_df
    m_time,             \* merge specification: a time column name is passed
    m_out,              \* merge specification: what merge_csv_data returned
    m_saved,            \* merge specification: the table after the result is saved
    m_out2,             \* merge specification: the merge of m_new into m_saved
    w_pc,               \* window specification: position in get_dynamic_date_range
    w_today,            \* window specification: the day datetime.now() gives
    w_max,              \* window specification: max_days_back
    w_default_end,      \* window specification: the argument default_end
    w_codes,            \* window specification: codes still to be processed
    w_code,             \* window specification: code of the current iteration
    w_range,            \* window specification: what calculate_incremental_range returned
    date_ranges,        \* window specification: [code -> range] of the codes processed
    r_pc,               \* restore specification: position
    r_code,             \* restore specification: the dataset restored
    r_before,           \* restore specification: table and backup before the call
    r_ok,               \* restore specification: what rollback_from_backup returned
    h_count,            \* history specification: [code -> appends made]
    v_pc,               \* validation specification: position
    v_old,              \* validation specification: old_df
    v_new,              \* validation specification: new_df
    v_merged,           \* validation specification: merged_df
    v_result            \* validation specification: what validate_merged_data returned

mergeVars == <<m_pc, m_file, m_new, m_time, m_out, m_saved, m_out2>>

windowVars == <<w_pc, w_today, w_max, w_default_end, w_codes, w_code, w_range,
               date_ranges>>

restoreVars == <<r_pc, r_code, r_before, r_ok>>

historyVars == <<h_count>>

validateVars == <<v_pc, v_old, v_new, v_merged, v_result>>

saveVars == <<table, backup, meta, history, pc, batches, items, data_dict, todo, cur,
              incremental_mode, backup_enabled, time_column, backup_path,
              existing_df, merged_df, validation_result, results, pre, run>>

NoValidation ==
    [is_valid |-> TRUE, warnings |-> {}, errors |-> {},
     stats |-> [old_records |-> 0, new_records |-> 0, merged_records |-> 0]]

NoResults ==
    [success_count |-> 0, error_count |-> 0, total_files |-> 0,
     saved_files |-> <<>>, errors |-> <<>>]

NoPre == [table |-> NoFile, meta |-> NoDescriptor, history |-> <<>>]

NoRun ==
    [failed |-> "none", merge_error |-> FALSE, wrote |-> FALSE,
     meta_saved |-> FALSE, rollback |-> "none", damaged |-> FALSE, done |-> FALSE]

\* No range: calculate_incremental_range has not been called.
NoWindow == [start |-> NoDate, end |-> NoDate]

\* get_dynamic_date_range is not running.
WindowIdle ==
    /\ w_pc = "off"
    /\ w_today = NoDate
    /\ w_max = 0
    /\ w_default_end = NoDate
    /\ w_codes = <<>>
    /\ w_code = "none"
    /\ w_range = NoWindow
    /\ date_ranges = [c \in Codes |-> NoWindow]

\* rollback_from_backup is not being called on its own.
RestoreIdle ==
    /\ r_pc = "off"
    /\ r_code = "none"
    /\ r_before = [table |-> NoFile, backup |-> NoFile]
    /\ r_ok = FALSE

\* No append has been made by add_to_history on its own.
HistoryIdle == h_count = [c \in Codes |-> 0]

\* validate_merged_data is not being called on its own.
ValidateIdle ==
    /\ v_pc = "off"
    /\ v_old = EmptyFrame
    /\ v_new = EmptyFrame
    /\ v_merged = EmptyFrame
    /\ v_result = NoValidation

(***************************************************************************)
(* State of the API optimizer (src/utils/api_optimizer.py)                 *)
(***************************************************************************)
Workers == {1, 2}          \* worker threads of batch_request
CacheKeys == {"k1", "k2", "k3"}

VARIABLES
    state,              \* CircuitBreaker.state
    failure_count,      \* CircuitBreaker.failure_count
    last_failure_time,  \* CircuitBreaker.last_failure_time is not None
    b_pc,               \* [worker -> position in CircuitBreaker.call]
    b_admitted,         \* [worker -> state when its call was admitted]
    b_calls,            \* calls started so far
    cache,              \* ResponseCache.cache: entries [key, time] in dict order
    access_times,       \* ResponseCache.access_times: entries [key, time] in dict order
    c_now,              \* what time.time() returns to the cache
    c_pc,               \* "on" while the cache is in use
    adaptive_delay,     \* RateLimiter._adaptive_delay in tenths of a second
    consecutive_errors, \* RateLimiter._consecutive_errors
    l_pc,               \* "errors" while errors may be reported, then "quiet"
    s_pc,               \* split specification: position
    s_start,            \* start_date as a day number
    s_end,              \* end_date as a day number
    s_avg,              \* avg_records_per_day of the code
    splits              \* what calculate_optimal_splits returned

breakerVars == <<state, failure_count, last_failure_time, b_pc, b_admitted, b_calls>>

cacheVars == <<cache, access_times, c_now, c_pc>>

limiterVars == <<adaptive_delay, consecutive_errors, l_pc>>

splitVars == <<s_pc, s_start, s_end, s_avg, splits>>

apiVars == <<breakerVars, cacheVars, limiterVars, splitVars>>

\* CircuitBreaker.__init__ (lines 120-126); no call is running.
BreakerIdle ==
    /\ state = "CLOSED"
    /\ failure_count = 0
    /\ last_failure_time = FALSE
    /\ b_pc = [w \in Workers |-> "off"]
    /\ b_admitted = [w \in Workers |-> "none"]
    /\ b_calls = 0

\* An empty ResponseCache that is not in use.
CacheIdle ==
    /\ cache = <<>>
    /\ access_times = <<>>
    /\ c_now = 0
    /\ c_pc = "off"

\* RateLimiter.__init__ (lines 62-69); nothing is reported.
LimiterIdle ==
    /\ adaptive_delay = 0
    /\ consecutive_errors = 0
    /\ l_pc = "off"

\* calculate_optimal_splits is not being called.
SplitIdle ==
    /\ s_pc = "off"
    /\ s_start = 0
    /\ s_end = 0
    /\ s_avg = 0
    /\ splits = <<>>

ApiIdle == BreakerIdle /\ CacheIdle /\ LimiterIdle /\ SplitIdle

(***************************************************************************)
(* Paths of the files of a dataset (feature_path, code), and two saves     *)
(* running at the same time on one file system                             *)
(***************************************************************************)
CsvSuffix == <<46, 99, 115, 118>>                            \* ".csv"
JsonSuffix == <<46, 106, 115, 111, 110>>                     \* ".json"
BackupInfix == <<95, 98, 97, 99, 107, 117, 112, 95>>          \* "_backup_"
LastUpdatePrefix ==
    <<108, 97, 115, 116, 95, 117, 112, 100, 97, 116, 101, 95>>   \* "last_update_"
HistoryPrefix ==
    <<117, 112, 100, 97, 116, 101, 95, 104, 105, 115, 116, 111, 114, 121, 95>>
                                                             \* "update_history_"
MetadataDirName == <<46, 109, 101, 116, 97, 100, 97, 116, 97>>   \* ".metadata"
\* datetime.now().strftime("%Y%m%d_%H%M%S"): both saves run in this second.
Timestamp == <<50, 48, 50, 52, 48, 49, 48, 49, 95, 48, 57, 48, 48, 48, 48>>

FeaturePaths == {<<102>>, <<103>>}           \* "f", "g"
CodeNames == {<<65>>, <<65, 66>>}            \* "A", "AB"
Datasets == {[feature |-> f, code |-> c] : f \in FeaturePaths, c \in CodeNames}

\* csv_path = save_dir / f"{code}.csv"
CsvPath(ds) == [dir |-> <<ds.feature>>, name |-> ds.code \o CsvSuffix]

\* Mutant: the backup is named after the timestamp only.
BackupPath_NoStem(ds, timestamp) ==
    [dir |-> <<ds.feature>>, name |-> Tail(BackupInfix) \o timestamp \o CsvSuffix]

\* csv_path.parent / f"{csv_path.stem}_backup_{timestamp}.csv"
BackupPath(ds, timestamp) ==
    [dir |-> <<ds.feature>>,
     name |-> ds.code \o BackupInfix \o timestamp \o CsvSuffix]

\* get_last_update_path(feature_path, code)
LastUpdatePath(ds) ==
    [dir |-> <<ds.feature, MetadataDirName>>,
     name |-> LastUpdatePrefix \o ds.code \o JsonSuffix]

\* get_history_path(feature_path, code)
HistoryPath(ds) ==
    [dir |-> <<ds.feature, MetadataDirName>>,
     name |-> HistoryPrefix \o ds.code \o JsonSuffix]

\* backup_path = None
NoPath == [dir |-> <<>>, name |-> <<>>]

\* The paths a save of the dataset reads or writes.
PathsOf(ds) ==
    {CsvPath(ds), BackupPath(ds, Timestamp), LastUpdatePath(ds), HistoryPath(ds)}

CsvPaths == {CsvPath(ds) : ds \in Datasets} \cup {BackupPath(ds, Timestamp) : ds \in Datasets}
LastUpdatePaths == {LastUpdatePath(ds) : ds \in Datasets}
HistoryPaths == {HistoryPath(ds) : ds \in Datasets}

Runs == {1, 2}

VARIABLES
    fs,                 \* [path -> file]: the CSV files of the data directories
    descs,              \* [path -> descriptor]: the last_update_<code>.json files
    hists,              \* [path -> sequence]: the update_history_<code>.json files
    p_pc,               \* [run -> position in the iteration of its dataset]
    p_ds,               \* [run -> dataset (feature_path, code)]
    p_df,               \* [run -> the frame fetched for the dataset]
    p_backup_path,      \* [run -> backup_path]
    p_merged,           \* [run -> merged_df]
    p_pre,              \* [run -> the files of its dataset before the runs]
    p_out               \* [run -> whether its write raised, and what it left]

pairVars == <<fs, descs, hists, p_pc, p_ds, p_df, p_backup_path, p_merged, p_pre, p_out>>

\* Variables the save does not touch.
notSaveVars == <<mergeVars, windowVars, restoreVars, historyVars, validateVars,
                 apiVars, pairVars>>

NoOutcome == [failed |-> "none", partial |-> NoFile, merge_error |-> FALSE, meta |-> "none"]

\* No file exists and no save is running.
PairIdle ==
    /\ fs = [q \in CsvPaths |-> NoFile]
    /\ descs = [q \in LastUpdatePaths |-> NoDescriptor]
    /\ hists = [q \in HistoryPaths |-> <<>>]
    /\ p_pc = [r \in Runs |-> "off"]
    /\ p_ds = [r \in Runs |-> [feature |-> <<>>, code |-> <<>>]]
    /\ p_df = [r \in Runs |-> EmptyFrame]
    /\ p_backup_path = [r \in Runs |-> NoPath]
    /\ p_merged = [r \in Runs |-> EmptyFrame]
    /\ p_pre = [r \in Runs |-> NoPre]
    /\ p_out = [r \in Runs |-> NoOutcome]

\* Frames a fetch can hand to the save: no frame at all, rows keyed by a date
\* string as the API returns it, or a snapshot without a date column.
FetchedFrames ==
    {EmptyFrame}
    \cup FramesUpTo({"date", "px"}, "str", MaxNew, 100)
    \cup FramesOfLen({"px"}, "str", 1, 100)

SaveInit ==
    /\ table = [c \in Codes |-> NoFile]
    /\ backup = [c \in Codes |-> NoFile]
    /\ meta = [c \in Codes |-> NoDescriptor]
    /\ history = [c \in Codes |-> <<>>]
    /\ pc = "idle"
    /\ batches = 0
    /\ items = 0
    /\ data_dict = [c \in Codes |-> EmptyFrame]
    /\ todo = <<>>
    /\ cur = "none"
    /\ incremental_mode = TRUE
    /\ backup_enabled = TRUE
    /\ time_column = FALSE
    /\ backup_path = FALSE
    /\ existing_df = EmptyFrame
    /\ merged_df = EmptyFrame
    /\ validation_result = NoValidation
    /\ results = NoResults
    /\ pre = NoPre
    /\ run = NoRun

(***************************************************************************)
(* save_feature_to_csv_incremental                                         *)
(***************************************************************************)
df == data_dict[cur]

CountSuccess(res, code) ==
    [res EXCEPT !.success_count = @ + 1, !.saved_files = Append(@, code)]

\* The outer except (lines 153-157).
CountError(res, code) ==
    [res EXCEPT !.error_count = @ + 1, !.errors = Append(@, code)]

MetaOutcomes == {"ok", "save_fails"}

\* update_metadata_incremental(feature_name, code, csv_path, new_records, ...):
\* it never raises; a failed save_last_update_info leaves descriptor and
\* history as they were.
UpdateMetadataIncremental(code, file, new_records, outcome) ==
    LET info == UpdatedInfo(meta[code], file, new_records, batches)
    IN  /\ meta' = IF outcome = "save_fails" THEN meta
                   ELSE [meta EXCEPT ![code] = info]
        /\ history' = IF outcome = "ok"
                      THEN [history EXCEPT ![code] = AddToHistory(@, info)]
                      ELSE history

\* A call with the argument data_dict (lines 43-58).
Call ==
    /\ pc = "idle"
    /\ items < MaxItems
    /\ \E order \in CodeOrders, frames \in [Codes -> FetchedFrames],
          inc \in BOOLEAN, bk \in BOOLEAN :
          /\ items + Len(order) <= MaxItems
          /\ \A c \in Codes :
                (\A i \in 1..Len(order) : order[i] # c) => frames[c] = EmptyFrame
          /\ items' = items + Len(order)
          /\ data_dict' = frames
          /\ todo' = order
          /\ incremental_mode' = inc
          /\ backup_enabled' = bk
          /\ results' = [NoResults EXCEPT !.total_files = Len(order)]
    /\ batches' = batches + 1
    /\ pc' = "loop"
    /\ cur' = "none"
    /\ run' = NoRun
    /\ UNCHANGED <<table, backup, meta, history, time_column, backup_path,
                   existing_df, merged_df, validation_result, pre>>
    /\ UNCHANGED notSaveVars

\* for code, df in data_dict.items(): the next iteration begins (lines 60-65, 83).
NextItem ==
    /\ pc = "loop"
    /\ todo # <<>>
    /\ cur' = Head(todo)
    /\ todo' = Tail(todo)
    /\ pre' = [table |-> table[Head(todo)], meta |-> meta[Head(todo)],
               history |-> history[Head(todo)]]
    /\ run' = NoRun
    /\ backup_path' = FALSE
    /\ existing_df' = EmptyFrame
    /\ merged_df' = EmptyFrame
    /\ validation_result' = NoValidation
    /\ pc' = IF incremental_mode THEN "backup" ELSE "full"
    /\ UNCHANGED <<table, backup, meta, history, batches, items, data_dict,
                   incremental_mode, backup_enabled, time_column, results>>
    /\ UNCHANGED notSaveVars

\* return results (line 159): the arguments and locals of the call are gone.
Return ==
    /\ pc = "loop"
    /\ todo = <<>>
    /\ pc' = "idle"
    /\ data_dict' = [c \in Codes |-> EmptyFrame]
    /\ cur' = "none"
    /\ incremental_mode' = TRUE
    /\ backup_enabled' = TRUE
    /\ backup_path' = FALSE
    /\ existing_df' = EmptyFrame
    /\ merged_df' = EmptyFrame
    /\ validation_result' = NoValidation
    /\ results' = NoResults
    /\ pre' = NoPre
    /\ run' = NoRun
    /\ UNCHANGED <<table, backup, meta, history, batches, items, todo, time_column>>
    /\ UNCHANGED notSaveVars

\* Full overwrite (lines 65-80): the write succeeds, the save is counted and
\* the metadata is updated.
FullOverwrite ==
    /\ pc = "full"
    /\ \E outcome \in MetaOutcomes :
          /\ table' = [table EXCEPT ![cur] = ToCsv(df)]
          /\ UpdateMetadataIncremental(cur, ToCsv(df), Len(df.rows), outcome)
          /\ run' = [run EXCEPT !.wrote = TRUE, !.meta_saved = (outcome # "save_fails"),
                                !.done = TRUE]
    /\ results' = CountSuccess(results, cur)
    /\ pc' = "loop"
    /\ UNCHANGED <<backup, batches, items, data_dict, todo, cur, incremental_mode,
                   backup_enabled, time_column, backup_path, existing_df, merged_df,
                   validation_result, pre>>
    /\ UNCHANGED notSaveVars

\* Full overwrite whose to_csv raises (line 67, then lines 153-157).
FullOverwriteFails ==
    /\ pc = "full"
    /\ \E f \in PartialWrites(table[cur], df) :
          /\ table' = [table EXCEPT ![cur] = f]
          /\ run' = [run EXCEPT !.failed = "write", !.damaged = (f # table[cur]),
                                !.done = TRUE]
    /\ results' = CountError(results, cur)
    /\ pc' = "loop"
    /\ UNCHANGED <<backup, meta, history, batches, items, data_dict, todo, cur,
                   incremental_mode, backup_enabled, time_column, backup_path,
                   existing_df, merged_df, validation_result, pre>>
    /\ UNCHANGED notSaveVars

\* Step 1 (lines 86-88) and backup_csv_file: the copy is made, or it is not
\* asked for.
TakeBackup ==
    /\ pc = "backup"
    /\ \/ /\ backup_enabled /\ table[cur].exists
          /\ backup' = [backup EXCEPT ![cur] = BackupCopy(table[cur])]
          /\ backup_path' = TRUE
       \/ /\ ~(backup_enabled /\ table[cur].exists)
          /\ backup_path' = FALSE
          /\ UNCHANGED backup
    /\ pc' = "merge"
    /\ UNCHANGED <<table, meta, history, batches, items, data_dict, todo, cur,
                   incremental_mode, backup_enabled, time_column, existing_df,
                   merged_df, validation_result, results, pre, run>>
    /\ UNCHANGED notSaveVars

\* Steps 2 and 3 (lines 90-112): read the existing table, merge, validate.
\* merge_csv_data reads the file again; when that read raises it returns the
\* new rows only.
MergeAndValidate ==
    /\ pc = "merge"
    /\ ~table[cur].exists \/ CanRead(table[cur])
    /\ \E io_error \in BOOLEAN :
          LET old == IF table[cur].exists THEN ReadCsv(table[cur]) ELSE EmptyFrame
              merged == MergeCsvData(table[cur], df, time_column, io_error)
          IN  /\ io_error => table[cur].exists
              /\ existing_df' = old
              /\ merged_df' = merged
              /\ validation_result' = ValidateMergedData(old, df, merged)
              /\ run' = [run EXCEPT !.merge_error = io_error]
    /\ pc' = "write"
    /\ UNCHANGED <<table, backup, meta, history, batches, items, data_dict, todo, cur,
                   incremental_mode, backup_enabled, time_column, backup_path,
                   results, pre>>
    /\ UNCHANGED notSaveVars

\* pd.read_csv(csv_path) of line 93 raises.
ReadExistingFails ==
    /\ pc = "merge"
    /\ table[cur].exists
    /\ run' = [run EXCEPT !.failed = "read"]
    /\ pc' = "rollback"
    /\ UNCHANGED <<table, backup, meta, history, batches, items, data_dict, todo, cur,
                   incremental_mode, backup_enabled, time_column, backup_path,
                   existing_df, merged_df, validation_result, results, pre>>
    /\ UNCHANGED notSaveVars

\* Step 4 (line 115): the merged frame is written whatever the validation said.
WriteMerged ==
    /\ pc = "write"
    /\ table' = [table EXCEPT ![cur] = ToCsv(merged_df)]
    /\ run' = [run EXCEPT !.wrote = TRUE]
    /\ pc' = "meta"
    /\ UNCHANGED <<backup, meta, history, batches, items, data_dict, todo, cur,
                   incremental_mode, backup_enabled, time_column, backup_path,
                   existing_df, merged_df, validation_result, results, pre>>
    /\ UNCHANGED notSaveVars

\* to_csv of line 115 raises.
WriteMergedFails ==
    /\ pc = "write"
    /\ \E f \in PartialWrites(table[cur], merged_df) :
          /\ table' = [table EXCEPT ![cur] = f]
          /\ run' = [run EXCEPT !.failed = "write", !.damaged = (f # table[cur])]
    /\ pc' = "rollback"
    /\ UNCHANGED <<backup, meta, history, batches, items, data_dict, todo, cur,
                   incremental_mode, backup_enabled, time_column, backup_path,
                   existing_df, merged_df, validation_result, results, pre>>
    /\ UNCHANGED notSaveVars

\* Step 5 (lines 117-123); the value update_metadata_incremental returns is
\* not looked at.
UpdateMetadata ==
    /\ pc = "meta"
    /\ \E outcome \in MetaOutcomes :
          /\ UpdateMetadataIncremental(cur, table[cur], Len(df.rows), outcome)
          /\ run' = [run EXCEPT !.meta_saved = (outcome # "save_fails")]
    /\ pc' = "finish"
    /\ UNCHANGED <<table, backup, batches, items, data_dict, todo, cur, incremental_mode,
                   backup_enabled, time_column, backup_path, existing_df, merged_df,
                   validation_result, results, pre>>
    /\ UNCHANGED notSaveVars

\* Mutant: the backup is left next to the table after a successful save.
Finish_KeepsBackup ==
    /\ pc = "finish"
    /\ results' = CountSuccess(results, cur)
    /\ run' = [run EXCEPT !.done = TRUE]
    /\ pc' = "loop"
    /\ UNCHANGED <<table, backup, meta, history, batches, items, data_dict, todo, cur,
                   incremental_mode, backup_enabled, time_column, backup_path,
                   existing_df, merged_df, validation_result, pre>>
    /\ UNCHANGED notSaveVars

\* Step 6 and the clean-up (lines 125-143): the save is counted and the
\* backup is unlinked.
Finish ==
    /\ pc = "finish"
    /\ results' = CountSuccess(results, cur)
    /\ backup' = IF backup_path /\ backup[cur].exists
                 THEN [backup EXCEPT ![cur] = NoFile] ELSE backup
    /\ run' = [run EXCEPT !.done = TRUE]
    /\ pc' = "loop"
    /\ UNCHANGED <<table, meta, history, batches, items, data_dict, todo, cur,
                   incremental_mode, backup_enabled, time_column, backup_path,
                   existing_df, merged_df, validation_result, pre>>
    /\ UNCHANGED notSaveVars

\* backup_path.unlink() of line 143 raises: the save has been counted at
\* lines 131-132 already, and the handler of line 145 takes over.
FinishUnlinkFails ==
    /\ pc = "finish"
    /\ backup_path /\ backup[cur].exists
    /\ results' = CountSuccess(results, cur)
    /\ run' = [run EXCEPT !.failed = "unlink"]
    /\ pc' = "rollback"
    /\ UNCHANGED <<table, backup, meta, history, batches, items, data_dict, todo, cur,
                   incremental_mode, backup_enabled, time_column, backup_path,
                   existing_df, merged_df, validation_result, pre>>
    /\ UNCHANGED notSaveVars

\* Mutant: the error of one dataset ends the loop over the batch.
Rollback_AbortsBatch ==
    /\ pc = "rollback"
    /\ IF backup_path /\ backup[cur].exists
       THEN /\ table' = [table EXCEPT
                            ![cur] = RollbackMove(table[cur], backup[cur]).table]
            /\ backup' = [backup EXCEPT
                            ![cur] = RollbackMove(table[cur], backup[cur]).backup]
            /\ run' = [run EXCEPT !.rollback = "done", !.done = TRUE]
       ELSE /\ UNCHANGED <<table, backup>>
            /\ run' = [run EXCEPT !.done = TRUE]
    /\ results' = CountError(results, cur)
    /\ pc' = "loop"
    /\ todo' = <<>>
    /\ UNCHANGED <<meta, history, batches, items, data_dict, cur, incremental_mode,
                   backup_enabled, time_column, backup_path, existing_df, merged_df,
                   validation_result, pre>>
    /\ UNCHANGED notSaveVars

\* The handler (lines 145-157) and rollback_from_backup: the backup is moved
\* over the table when there is one, and the error is counted.
Rollback ==
    /\ pc = "rollback"
    /\ IF backup_path /\ backup[cur].exists
       THEN /\ table' = [table EXCEPT
                            ![cur] = RollbackMove(table[cur], backup[cur]).table]
            /\ backup' = [backup EXCEPT
                            ![cur] = RollbackMove(table[cur], backup[cur]).backup]
            /\ run' = [run EXCEPT !.rollback = "done", !.done = TRUE]
       ELSE /\ UNCHANGED <<table, backup>>
            /\ run' = [run EXCEPT !.done = TRUE]
    /\ results' = CountError(results, cur)
    /\ pc' = "loop"
    /\ UNCHANGED <<meta, history, batches, items, data_dict, todo, cur, incremental_mode,
                   backup_enabled, time_column, backup_path, existing_df, merged_df,
                   validation_result, pre>>
    /\ UNCHANGED notSaveVars

SaveNext ==
    \/ Call \/ NextItem \/ Return
    \/ FullOverwrite \/ FullOverwriteFails
    \/ TakeBackup
    \/ MergeAndValidate \/ ReadExistingFails
    \/ WriteMerged \/ WriteMergedFails
    \/ UpdateMetadata
    \/ Finish \/ FinishUnlinkFails
    \/ Rollback

(***************************************************************************)
(* The merge on its own: merge_csv_data applied to a table file and a new  *)
(* frame, its result saved as line 115 does, and the same frame merged     *)
(* into the saved table.                                                   *)
(***************************************************************************)
KeyedColumnSets == {{"date", "px"}, {"date", "time", "px"}}

\* Table files the program can have written: none, a blank file, or the
\* text of a frame with up to MaxRows rows.
ExistingFiles ==
    {NoFile, ToCsv(EmptyFrame)}
    \cup {ToCsv(f) : f \in UNION {FramesUpTo(cols, "str", MaxRows, 10) :
                                     cols \in KeyedColumnSets \cup {{"px"}}}}

\* New frames: keyed by str or by int cells, or without a date column.
NewFrames ==
    {EmptyFrame}
    \cup UNION {FramesUpTo(cols, ty, MaxRows, 20) :
                   cols \in KeyedColumnSets, ty \in KeyTypes}
    \cup FramesUpTo({"px"}, "str", MaxRows, 20)

MergeIdle ==
    /\ m_pc = "off"
    /\ m_file = NoFile
    /\ m_new = EmptyFrame
    /\ m_time = FALSE
    /\ m_out = EmptyFrame
    /\ m_saved = NoFile
    /\ m_out2 = EmptyFrame

MergeInit ==
    /\ ApiIdle /\ PairIdle
    /\ ValidateIdle
    /\ HistoryIdle
    /\ SaveInit
    /\ WindowIdle
    /\ RestoreIdle
    /\ m_pc = "start"
    /\ m_file \in ExistingFiles
    /\ m_new \in NewFrames
    /\ m_time \in BOOLEAN
    /\ m_out = EmptyFrame
    /\ m_saved = NoFile
    /\ m_out2 = EmptyFrame

\* merged_df = merge_csv_data(csv_path, df, date_column, time_column)
MergeOnce ==
    /\ m_pc = "start"
    /\ m_out' = MergeCsvData(m_file, m_new, m_time, FALSE)
    /\ m_pc' = "merged"
    /\ UNCHANGED <<m_file, m_new, m_time, m_saved, m_out2>>
    /\ UNCHANGED <<saveVars, windowVars, restoreVars, historyVars, validateVars, apiVars, pairVars>>

\* merged_df.to_csv(csv_path, index=False)
SaveMerged ==
    /\ m_pc = "merged"
    /\ m_saved' = ToCsv(m_out)
    /\ m_pc' = "saved"
    /\ UNCHANGED <<m_file, m_new, m_time, m_out, m_out2>>
    /\ UNCHANGED <<saveVars, windowVars, restoreVars, historyVars, validateVars, apiVars, pairVars>>

\* The next run fetches the same rows and merges them into the saved table.
MergeAgain ==
    /\ m_pc = "saved"
    /\ m_out2' = MergeCsvData(m_saved, m_new, m_time, FALSE)
    /\ m_pc' = "again"
    /\ UNCHANGED <<m_file, m_new, m_time, m_out, m_saved>>
    /\ UNCHANGED <<saveVars, windowVars, restoreVars, historyVars, validateVars, apiVars, pairVars>>

MergeNext == MergeOnce \/ SaveMerged \/ MergeAgain

(***************************************************************************)
(* The incremental window: calculate_incremental_range and                 *)
(* get_dynamic_date_range.  The two reads of the clock in                  *)
(* calculate_incremental_range (lines 348 and 373) fall on the same day.   *)
(***************************************************************************)
\* Mutant: a gap of exactly max_days_back days is stale too.
CalculateIncrementalRange_StaleAtLimit(last_info, today, max_days_back) ==
    LET last_end_date == last_info.date_range.end
    IN  IF ~last_info.exists \/ last_end_date = NoDate \/ ~IsDateText(last_end_date)
        THEN [start |-> NoDate, end |-> today]
        ELSE IF DateOrdinal(today) - DateOrdinal(last_end_date) >= max_days_back
             THEN [start |-> NoDate, end |-> today]
             ELSE [start |-> FormatDate(NextDay(last_end_date)[1],
                                        NextDay(last_end_date)[2],
                                        NextDay(last_end_date)[3]),
                   end |-> today]

\* Mutant: when the start is after today, today is returned as the start.
CalculateIncrementalRange_SameDate(last_info, today, max_days_back) ==
    LET last_end_date == last_info.date_range.end
    IN  IF ~last_info.exists \/ last_end_date = NoDate \/ ~IsDateText(last_end_date)
        THEN [start |-> NoDate, end |-> today]
        ELSE IF DateOrdinal(today) - DateOrdinal(last_end_date) > max_days_back
             THEN [start |-> NoDate, end |-> today]
             ELSE LET s == FormatDate(NextDay(last_end_date)[1],
                                      NextDay(last_end_date)[2],
                                      NextDay(last_end_date)[3])
                  IN  [start |-> IF StrLess(today, s) THEN today ELSE s,
                       end |-> today]

\* calculate_incremental_range(feature_path, code, max_days_back) for the
\* descriptor last_info that load_last_update_info gives; NoDate as start is
\* None: a full collection is needed.
CalculateIncrementalRange(last_info, today, max_days_back) ==
    LET end_date == today
        last_end_date == last_info.date_range.end
    IN  IF ~last_info.exists THEN [start |-> NoDate, end |-> end_date]
        ELSE IF last_end_date = NoDate THEN [start |-> NoDate, end |-> end_date]
        ELSE IF ~IsDateText(last_end_date)
             THEN [start |-> NoDate, end |-> end_date]     \* strptime raises
        ELSE LET start_date == NextDay(last_end_date)
                 days_diff == DateOrdinal(today) - DateOrdinal(last_end_date)
                 start_date_str == FormatDate(start_date[1], start_date[2],
                                              start_date[3])
             IN  IF days_diff > max_days_back
                 THEN [start |-> NoDate, end |-> end_date]
                 ELSE [start |-> start_date_str, end |-> end_date]

\* default_start of get_dynamic_date_range.
DefaultStart == D1

\* Days the clock can show and ends a descriptor can hold: ends of months
\* and of a year, a leap day, a text that is no date and one with 9 digits.
WindowTodays == {FormatDate(2024, 1, 1), FormatDate(2024, 2, 29), FormatDate(2024, 3, 1)}
WindowEnds ==
    {FormatDate(2023, 12, 31), FormatDate(2024, 1, 1), FormatDate(2024, 2, 28),
     FormatDate(2024, 2, 29), FormatDate(2024, 3, 1),
     FormatDate(2024, 13, 1), FormatDate(2024, 1, 1) \o <<49>>}
MaxDaysBackValues == {0, 1, 60}

\* Descriptors a save has left: none, one without a date range, one whose
\* range ends at a text of WindowEnds.
WindowDescriptors ==
    {NoDescriptor}
    \cup {[exists |-> TRUE, total_records |-> 1,
           date_range |-> [start |-> e, end |-> e],
           collection_mode |-> "incremental", new_records_added |-> 1,
           stamp |-> 1] : e \in WindowEnds \cup {NoDate}}

\* get_dynamic_date_range is called for some codes; every dataset with a
\* descriptor has a table and a history.
WindowInit ==
    /\ ApiIdle /\ PairIdle
    /\ ValidateIdle
    /\ HistoryIdle
    /\ MergeIdle
    /\ RestoreIdle
    /\ meta \in [Codes -> WindowDescriptors]
    /\ table = [c \in Codes |->
                  IF meta[c].exists
                  THEN ToCsv([cols |-> {"date", "px"},
                              rows |-> <<[date |-> StrCell(D1), time |-> NoCell,
                                          px |-> 1]>>])
                  ELSE NoFile]
    /\ history = [c \in Codes |->
                    IF meta[c].exists THEN AddToHistory(<<>>, meta[c]) ELSE <<>>]
    /\ backup = [c \in Codes |-> NoFile]
    /\ pc = "idle"
    /\ batches = 0
    /\ items = 0
    /\ data_dict = [c \in Codes |-> EmptyFrame]
    /\ todo = <<>>
    /\ cur = "none"
    /\ incremental_mode = TRUE
    /\ backup_enabled = TRUE
    /\ time_column = FALSE
    /\ backup_path = FALSE
    /\ existing_df = EmptyFrame
    /\ merged_df = EmptyFrame
    /\ validation_result = NoValidation
    /\ results = NoResults
    /\ pre = NoPre
    /\ run = NoRun
    /\ w_pc = "loop"
    /\ w_today \in WindowTodays
    /\ w_max \in MaxDaysBackValues
    /\ w_default_end \in {NoDate, D2}
    /\ w_codes \in CodeOrders
    /\ w_code = "none"
    /\ w_range = NoWindow
    /\ date_ranges = [c \in Codes |-> NoWindow]

\* One iteration of the loop of get_dynamic_date_range (lines 189-209).
WindowStep ==
    /\ w_pc = "loop"
    /\ w_codes # <<>>
    /\ LET code == Head(w_codes)
           r == CalculateIncrementalRange(meta[code], w_today, w_max)
           default_end == IF w_default_end = NoDate THEN w_today ELSE w_default_end
       IN  /\ w_code' = code
           /\ w_range' = r
           /\ date_ranges' =
                 [date_ranges EXCEPT
                     ![code] = IF r.start = NoDate
                               THEN [start |-> DefaultStart, end |-> default_end]
                               ELSE r]
    /\ w_codes' = Tail(w_codes)
    /\ UNCHANGED <<w_pc, w_today, w_max, w_default_end>>
    /\ UNCHANGED <<saveVars, mergeVars, restoreVars, historyVars, validateVars, apiVars, pairVars>>

\* return date_ranges (line 216).
WindowReturn ==
    /\ w_pc = "loop"
    /\ w_codes = <<>>
    /\ w_pc' = "done"
    /\ UNCHANGED <<w_today, w_max, w_default_end, w_codes, w_code, w_range, date_ranges>>
    /\ UNCHANGED <<saveVars, mergeVars, restoreVars, historyVars, validateVars, apiVars, pairVars>>

WindowNext == WindowStep \/ WindowReturn

(***************************************************************************)
(* rollback_from_backup on its own: any table file, any backup file.       *)
(***************************************************************************)
\* Files at csv_path or backup_path: none, a blank file, a header with up to
\* MaxRows rows (what a complete or an interrupted to_csv leaves).
RestoreFiles ==
    {NoFile, ToCsv(EmptyFrame)}
    \cup {ToCsv(f) : f \in FramesUpTo({"date", "px"}, "str", MaxRows, 10)}

RestoreInit ==
    /\ ApiIdle /\ PairIdle
    /\ ValidateIdle
    /\ HistoryIdle
    /\ MergeIdle
    /\ WindowIdle
    /\ table \in [Codes -> RestoreFiles]
    /\ backup \in [Codes -> {NoFile, ToCsv(EmptyFrame)}
                              \cup {ToCsv(f) : f \in FramesUpTo({"date", "px"}, "str",
                                                               1, 30)}]
    /\ meta = [c \in Codes |-> NoDescriptor]
    /\ history = [c \in Codes |-> <<>>]
    /\ pc = "idle"
    /\ batches = 0
    /\ items = 0
    /\ data_dict = [c \in Codes |-> EmptyFrame]
    /\ todo = <<>>
    /\ cur = "none"
    /\ incremental_mode = TRUE
    /\ backup_enabled = TRUE
    /\ time_column = FALSE
    /\ backup_path = FALSE
    /\ existing_df = EmptyFrame
    /\ merged_df = EmptyFrame
    /\ validation_result = NoValidation
    /\ results = NoResults
    /\ pre = NoPre
    /\ run = NoRun
    /\ r_pc = "start"
    /\ r_code = "none"
    /\ r_before = [table |-> NoFile, backup |-> NoFile]
    /\ r_ok = FALSE

\* rollback_from_backup(csv_path, backup_path) for the files of one dataset.
Restore ==
    /\ r_pc = "start"
    /\ \E c \in Codes :
          LET res == RollbackFromBackup(table[c], backup[c])
          IN  /\ r_code' = c
              /\ r_before' = [table |-> table[c], backup |-> backup[c]]
              /\ table' = [table EXCEPT ![c] = res.table]
              /\ backup' = [backup EXCEPT ![c] = res.backup]
              /\ r_ok' = res.ok
    /\ r_pc' = "done"
    /\ UNCHANGED <<meta, history, pc, batches, items, data_dict, todo, cur,
                   incremental_mode, backup_enabled, time_column, backup_path,
                   existing_df, merged_df, validation_result, results, pre, run>>
    /\ UNCHANGED <<mergeVars, windowVars, historyVars, validateVars, apiVars, pairVars>>

RestoreNext == Restore

(***************************************************************************)
(* add_to_history on its own: appends to the histories of the datasets.    *)
(***************************************************************************)
\* The n-th descriptor handed to add_to_history for a dataset.
HistoryInfo(n) ==
    [exists |-> TRUE, total_records |-> n, date_range |-> NoRange,
     collection_mode |-> "incremental", new_records_added |-> 1, stamp |-> n]

HistoryInit ==
    /\ ApiIdle /\ PairIdle
    /\ ValidateIdle
    /\ SaveInit
    /\ MergeIdle
    /\ WindowIdle
    /\ RestoreIdle
    /\ h_count = [c \in Codes |-> 0]

\* add_to_history(feature_path, code, update_info)
AppendHistory ==
    /\ \E c \in Codes :
          /\ h_count[c] < MaxAppends
          /\ h_count' = [h_count EXCEPT ![c] = @ + 1]
          /\ history' = [history EXCEPT
                            ![c] = AddToHistory(@, HistoryInfo(h_count[c] + 1))]
    /\ UNCHANGED <<table, backup, meta, pc, batches, items, data_dict, todo, cur,
                   incremental_mode, backup_enabled, time_column, backup_path,
                   existing_df, merged_df, validation_result, results, pre, run>>
    /\ UNCHANGED <<mergeVars, windowVars, restoreVars, validateVars, apiVars, pairVars>>

HistoryNext == AppendHistory

(***************************************************************************)
(* validate_merged_data on its own: any three frames.                      *)
(***************************************************************************)
\* Dates of the merged rows: two neighbouring days and one more than GapDays
\* days later.
ValidateDates == {D1, D2, FormatDate(2024, 1, 10)}

\* Frames with n rows of which only the count matters to the validator.
CountedFrame(n) ==
    [cols |-> {"date", "px"},
     rows |-> [i \in 1..n |-> [date |-> StrCell(D1), time |-> NoCell, px |-> i]]]

\* Merged frames: no frame, rows with a date column, rows without one.
MergedFrames ==
    {EmptyFrame}
    \cup UNION {{[cols |-> {"date", "px"},
                  rows |-> [i \in 1..n |->
                              [date |-> StrCell(d[i]), time |-> NoCell, px |-> i]]] :
                    d \in [1..n -> ValidateDates]} : n \in 0..MaxRows}
    \cup FramesUpTo({"px"}, "str", MaxRows, 0)

ValidateInit ==
    /\ ApiIdle /\ PairIdle
    /\ SaveInit
    /\ MergeIdle
    /\ WindowIdle
    /\ RestoreIdle
    /\ HistoryIdle
    /\ v_pc = "start"
    /\ v_old \in {CountedFrame(n) : n \in 0..MaxRows}
    /\ v_new \in {CountedFrame(n) : n \in 0..MaxRows}
    /\ v_merged \in MergedFrames
    /\ v_result = NoValidation

\* validation_result = validate_merged_data(old_df, new_df, merged_df)
Validate ==
    /\ v_pc = "start"
    /\ v_result' = ValidateMergedData(v_old, v_new, v_merged)
    /\ v_pc' = "done"
    /\ UNCHANGED <<v_old, v_new, v_merged>>
    /\ UNCHANGED <<saveVars, mergeVars, windowVars, restoreVars, historyVars, apiVars, pairVars>>

ValidateNext == Validate

(***************************************************************************)
(* CircuitBreaker (api_optimizer.py lines 117-171), driven by the worker   *)
(* threads of batch_request through optimized_request (line 565).          *)
(***************************************************************************)
\* _on_success (lines 153-159), under the lock.
OnSuccess ==
    /\ failure_count' = 0
    /\ state' = IF state = "HALF_OPEN" THEN "CLOSED" ELSE state
    /\ UNCHANGED last_failure_time

\* _on_failure (lines 161-171), under the lock.
OnFailure ==
    /\ failure_count' = failure_count + 1
    /\ last_failure_time' = TRUE
    /\ state' = IF failure_count + 1 >= FailureThreshold THEN "OPEN" ELSE state

BreakerInit ==
    /\ SaveInit /\ MergeIdle /\ WindowIdle /\ RestoreIdle /\ HistoryIdle /\ ValidateIdle
    /\ CacheIdle /\ LimiterIdle /\ SplitIdle /\ PairIdle
    /\ state = "CLOSED"
    /\ failure_count = 0
    /\ last_failure_time = FALSE
    /\ b_pc = [w \in Workers |-> "idle"]
    /\ b_admitted = [w \in Workers |-> "none"]
    /\ b_calls = 0

\* call, lines 130-136: the call is let through; an OPEN breaker whose
\* timeout has passed since the last failure (elapsed) becomes HALF_OPEN.
BreakerAdmit(w) ==
    /\ b_pc[w] # "running"
    /\ b_calls < MaxCalls
    /\ \E elapsed \in BOOLEAN :
          /\ state = "OPEN" => (last_failure_time /\ elapsed)
          /\ state' = IF state = "OPEN" THEN "HALF_OPEN" ELSE state
    /\ b_admitted' = [b_admitted EXCEPT ![w] = state']
    /\ b_pc' = [b_pc EXCEPT ![w] = "running"]
    /\ b_calls' = b_calls + 1
    /\ UNCHANGED <<failure_count, last_failure_time>>
    /\ UNCHANGED <<saveVars, mergeVars, windowVars, restoreVars, historyVars,
                   validateVars, cacheVars, limiterVars, splitVars,
                   pairVars>>

\* call, line 136: the breaker is OPEN and the timeout has not passed.
BreakerReject(w) ==
    /\ b_pc[w] # "running"
    /\ b_calls < MaxCalls
    /\ state = "OPEN"
    /\ b_admitted' = [b_admitted EXCEPT ![w] = "none"]
    /\ b_pc' = [b_pc EXCEPT ![w] = "rejected"]
    /\ b_calls' = b_calls + 1
    /\ UNCHANGED <<state, failure_count, last_failure_time>>
    /\ UNCHANGED <<saveVars, mergeVars, windowVars, restoreVars, historyVars,
                   validateVars, cacheVars, limiterVars, splitVars,
                   pairVars>>

\* call, lines 139-141: func returned.
BreakerCallSucceeds(w) ==
    /\ b_pc[w] = "running"
    /\ OnSuccess
    /\ b_pc' = [b_pc EXCEPT ![w] = "returned"]
    /\ UNCHANGED <<b_admitted, b_calls>>
    /\ UNCHANGED <<saveVars, mergeVars, windowVars, restoreVars, historyVars,
                   validateVars, cacheVars, limiterVars, splitVars,
                   pairVars>>

\* call, lines 142-144: func raised.
BreakerCallFails(w) ==
    /\ b_pc[w] = "running"
    /\ OnFailure
    /\ b_pc' = [b_pc EXCEPT ![w] = "raised"]
    /\ UNCHANGED <<b_admitted, b_calls>>
    /\ UNCHANGED <<saveVars, mergeVars, windowVars, restoreVars, historyVars,
                   validateVars, cacheVars, limiterVars, splitVars,
                   pairVars>>

BreakerNext ==
    \E w \in Workers :
        \/ BreakerAdmit(w)
        \/ BreakerReject(w)
        \/ BreakerCallSucceeds(w)
        \/ BreakerCallFails(w)

(***************************************************************************)
(* ResponseCache (api_optimizer.py lines 174-254).  A dict is the sequence *)
(* of its entries [key, time] in insertion order; get and put run under    *)
(* the lock.  The pickle of line 243 is written when the size is a         *)
(* multiple of 10 and changes neither dict.                                *)
(***************************************************************************)
HasKey(d, k) == \E i \in 1..Len(d) : d[i].key = k

KeysOf(d) == {d[i].key : i \in 1..Len(d)}

TimeOf(d, k) == d[CHOOSE i \in 1..Len(d) : d[i].key = k].time

\* d[k] = t: an existing key keeps its place, a new one goes to the end.
DictSet(d, k, t) ==
    IF HasKey(d, k)
    THEN [i \in 1..Len(d) |-> IF d[i].key = k THEN [key |-> k, time |-> t] ELSE d[i]]
    ELSE Append(d, [key |-> k, time |-> t])

\* del d[k]
DictDel(d, k) == SelectSeq(d, LAMBDA e : e.key # k)

\* min(access_times.keys(), key=...): the first key with the smallest time.
OldestKey(a) ==
    a[CHOOSE i \in 1..Len(a) :
          /\ \A j \in 1..Len(a) : a[i].time <= a[j].time
          /\ \A j \in 1..(i - 1) : a[j].time > a[i].time].key

\* Mutant: the oldest key is dropped from access_times only.
EvictOldest_TimesOnly(c, a) ==
    IF a = <<>> THEN [cache |-> c, access_times |-> a]
    ELSE [cache |-> c, access_times |-> DictDel(a, OldestKey(a))]

\* _evict_oldest (lines 245-254)
EvictOldest(c, a) ==
    IF a = <<>> THEN [cache |-> c, access_times |-> a]
    ELSE [cache |-> DictDel(c, OldestKey(a)),
          access_times |-> DictDel(a, OldestKey(a))]

CacheInit ==
    /\ SaveInit /\ MergeIdle /\ WindowIdle /\ RestoreIdle /\ HistoryIdle /\ ValidateIdle
    /\ BreakerIdle /\ LimiterIdle /\ SplitIdle /\ PairIdle
    /\ cache = <<>>
    /\ access_times = <<>>
    /\ c_now = 0
    /\ c_pc = "on"

\* put(request, response) for a request with the cache key k (lines 228-243).
CachePut(k) ==
    /\ c_pc = "on"
    /\ LET ev == IF Len(cache) >= MaxSize THEN EvictOldest(cache, access_times)
                 ELSE [cache |-> cache, access_times |-> access_times]
       IN  /\ cache' = DictSet(ev.cache, k, c_now)
           /\ access_times' = DictSet(ev.access_times, k, c_now)
    /\ UNCHANGED <<c_now, c_pc>>
    /\ UNCHANGED <<saveVars, mergeVars, windowVars, restoreVars, historyVars,
                   validateVars, breakerVars, limiterVars, splitVars,
                   pairVars>>

\* get(request) for a request with the cache key k (lines 206-226): a hit
\* within the TTL refreshes the access time, an expired entry is removed.
CacheGet(k) ==
    /\ c_pc = "on"
    /\ IF HasKey(cache, k)
       THEN IF c_now - TimeOf(cache, k) <= TtlSeconds
            THEN /\ access_times' = DictSet(access_times, k, c_now)
                 /\ UNCHANGED cache
            ELSE /\ cache' = DictDel(cache, k)
                 /\ access_times' = DictDel(access_times, k)
       ELSE UNCHANGED <<cache, access_times>>
    /\ UNCHANGED <<c_now, c_pc>>
    /\ UNCHANGED <<saveVars, mergeVars, windowVars, restoreVars, historyVars,
                   validateVars, breakerVars, limiterVars, splitVars,
                   pairVars>>

\* time.time() moves on.
CacheTick ==
    /\ c_pc = "on"
    /\ c_now < MaxClock
    /\ c_now' = c_now + 1
    /\ UNCHANGED <<cache, access_times, c_pc>>
    /\ UNCHANGED <<saveVars, mergeVars, windowVars, restoreVars, historyVars,
                   validateVars, breakerVars, limiterVars, splitVars,
                   pairVars>>

CacheNext ==
    \/ \E k \in CacheKeys : CachePut(k) \/ CacheGet(k)
    \/ CacheTick

(***************************************************************************)
(* RateLimiter.report_error and report_success (api_optimizer.py lines     *)
(* 97-114).  The delay is counted in tenths of a second: 0.5 is 5, the cap *)
(* of 10.0 is 100, and a success takes 0.1 off.                            *)
(***************************************************************************)
DelayPerError == 5
DelayCap == 100
DelayPerSuccess == 1

Min2(a, b) == IF a <= b THEN a ELSE b
Max2(a, b) == IF a >= b THEN a ELSE b

LimiterInit ==
    /\ SaveInit /\ MergeIdle /\ WindowIdle /\ RestoreIdle /\ HistoryIdle /\ ValidateIdle
    /\ BreakerIdle /\ CacheIdle /\ SplitIdle /\ PairIdle
    /\ adaptive_delay = 0
    /\ consecutive_errors = 0
    /\ l_pc = "errors"

\* report_error (lines 97-107)
ReportError ==
    /\ l_pc = "errors"
    /\ consecutive_errors < MaxErrors
    /\ consecutive_errors' = consecutive_errors + 1
    /\ adaptive_delay' = Min2((consecutive_errors + 1) * DelayPerError, DelayCap)
    /\ UNCHANGED l_pc
    /\ UNCHANGED <<saveVars, mergeVars, windowVars, restoreVars, historyVars,
                   validateVars, breakerVars, cacheVars, splitVars,
                   pairVars>>

\* report_success (lines 109-114)
ReportSuccess ==
    /\ l_pc \in {"errors", "quiet"}
    /\ IF consecutive_errors > 0
       THEN /\ consecutive_errors' = Max2(0, consecutive_errors - 1)
            /\ adaptive_delay' = Max2(0, adaptive_delay - DelayPerSuccess)
       ELSE UNCHANGED <<consecutive_errors, adaptive_delay>>
    /\ UNCHANGED l_pc
    /\ UNCHANGED <<saveVars, mergeVars, windowVars, restoreVars, historyVars,
                   validateVars, breakerVars, cacheVars, splitVars,
                   pairVars>>

\* The API recovers: from now on no error is reported.
ErrorsStop ==
    /\ l_pc = "errors"
    /\ l_pc' = "quiet"
    /\ UNCHANGED <<adaptive_delay, consecutive_errors>>
    /\ UNCHANGED <<saveVars, mergeVars, windowVars, restoreVars, historyVars,
                   validateVars, breakerVars, cacheVars, splitVars,
                   pairVars>>

LimiterNext == ReportError \/ ReportSuccess \/ ErrorsStop

(***************************************************************************)
(* DateRangeSplitter.calculate_optimal_splits (api_optimizer.py lines      *)
(* 297-337).  A date is its day number; timedelta(days=n) adds n.          *)
(***************************************************************************)
MaxSplits == 10

\* split_days (lines 306-321): by the frequency of the data, stretched so
\* that no more than about max_splits segments are made.
SplitDays(avg_records_per_day, total_days) ==
    LET split_days == IF avg_records_per_day > 50 THEN 30
                      ELSE IF avg_records_per_day > 10 THEN 90
                      ELSE 180
    IN  IF total_days \div split_days > MaxSplits
        THEN total_days \div MaxSplits
        ELSE split_days

\* The while loop of lines 327-330.
RECURSIVE SplitLoop(_, _, _)
SplitLoop(current_date, end_date, split_days) ==
    IF current_date < end_date
    THEN LET split_end == Min2(current_date + split_days, end_date)
         IN  <<[from |-> current_date, to |-> split_end]>>
                 \o SplitLoop(split_end + 1, end_date, split_days)
    ELSE <<>>

\* calculate_optimal_splits(start_date, end_date, code, "daily")
CalculateOptimalSplits(start_date, end_date, avg_records_per_day) ==
    SplitLoop(start_date, end_date,
              SplitDays(avg_records_per_day, end_date - start_date))

\* avg_records_per_day of a code: the default 1.0, a medium and a high
\* frequency (lines 311-316).
AvgRecords == {1, 11, 51}

SplitInit ==
    /\ SaveInit /\ MergeIdle /\ WindowIdle /\ RestoreIdle /\ HistoryIdle /\ ValidateIdle
    /\ BreakerIdle /\ CacheIdle /\ LimiterIdle /\ PairIdle
    /\ s_pc = "start"
    /\ s_start \in 1..2
    /\ s_end \in s_start..(s_start + MaxSpan)
    /\ s_avg \in AvgRecords
    /\ splits = <<>>

\* date_ranges = calculate_optimal_splits(start_date, end_date, code, "daily")
\* (line 693)
Split ==
    /\ s_pc = "start"
    /\ splits' = CalculateOptimalSplits(s_start, s_end, s_avg)
    /\ s_pc' = "done"
    /\ UNCHANGED <<s_start, s_end, s_avg>>
    /\ UNCHANGED <<saveVars, mergeVars, windowVars, restoreVars, historyVars,
                   validateVars, breakerVars, cacheVars, limiterVars,
                   pairVars>>

SplitNext == Split

vars == <<saveVars, mergeVars, windowVars, restoreVars, historyVars, validateVars,
          apiVars, pairVars>>

Init ==
    /\ SaveInit /\ MergeIdle /\ WindowIdle /\ RestoreIdle /\ HistoryIdle /\ ValidateIdle
    /\ ApiIdle /\ PairIdle
Next == SaveNext
Spec == Init /\ [][Next]_vars

SpecMerge == MergeInit /\ [][MergeNext]_vars

SpecWindow == WindowInit /\ [][WindowNext]_vars

SpecRestore == RestoreInit /\ [][RestoreNext]_vars

SpecHistory == HistoryInit /\ [][HistoryNext]_vars

SpecValidate == ValidateInit /\ [][ValidateNext]_vars

SpecBreaker == BreakerInit /\ [][BreakerNext]_vars

SpecCache == CacheInit /\ [][CacheNext]_vars

SpecSplit == SplitInit /\ [][SplitNext]_vars

(***************************************************************************)
(* Two saves of different datasets at the same time                        *)
(*                                                                         *)
(* Each run is one iteration of save_feature_to_csv_incremental in the     *)
(* incremental mode with backups enabled; every step is one operation on   *)
(* the file system the two runs share, and the steps interleave freely.    *)
(***************************************************************************)
\* Tables a dataset can have before the runs.
SeedTables ==
    {NoFile} \cup {ToCsv(f) : f \in {g \in FramesOfLen({"date", "px"}, "str", 1, 10) :
                                        g.rows[1].date = StrCell(D1)}}

\* The descriptor and history an earlier save of the table left.
SeedDescriptor(file) == IF file.exists THEN CreateUpdateInfo(file, 0) ELSE NoDescriptor
SeedHistory(file) ==
    IF file.exists THEN AddToHistory(<<>>, SeedDescriptor(file)) ELSE <<>>

PairInit ==
    /\ SaveInit /\ MergeIdle /\ WindowIdle /\ RestoreIdle /\ HistoryIdle /\ ValidateIdle
    /\ ApiIdle
    /\ \E other \in Datasets \ {[feature |-> <<102>>, code |-> <<65>>]} :
          p_ds = [r \in Runs |-> IF r = 1 THEN [feature |-> <<102>>, code |-> <<65>>]
                                          ELSE other]
    /\ \E seed \in [Runs -> SeedTables] :
          /\ fs = [q \in CsvPaths |->
                     IF q = CsvPath(p_ds[1]) THEN seed[1]
                     ELSE IF q = CsvPath(p_ds[2]) THEN seed[2] ELSE NoFile]
          /\ descs = [q \in LastUpdatePaths |->
                        IF q = LastUpdatePath(p_ds[1]) THEN SeedDescriptor(seed[1])
                        ELSE IF q = LastUpdatePath(p_ds[2]) THEN SeedDescriptor(seed[2])
                        ELSE NoDescriptor]
          /\ hists = [q \in HistoryPaths |->
                        IF q = HistoryPath(p_ds[1]) THEN SeedHistory(seed[1])
                        ELSE IF q = HistoryPath(p_ds[2]) THEN SeedHistory(seed[2])
                        ELSE <<>>]
          /\ p_pre = [r \in Runs |-> [table |-> seed[r],
                                      meta |-> SeedDescriptor(seed[r]),
                                      history |-> SeedHistory(seed[r])]]
    /\ p_df \in [Runs -> FetchedFrames]
    /\ p_pc = [r \in Runs |-> "backup"]
    /\ p_backup_path = [r \in Runs |-> NoPath]
    /\ p_merged = [r \in Runs |-> EmptyFrame]
    /\ p_out = [r \in Runs |-> NoOutcome]

\* Step 1 (lines 86-88) and backup_csv_file (lines 488-500).
PairTakeBackup(r) ==
    /\ p_pc[r] = "backup"
    /\ IF fs[CsvPath(p_ds[r])].exists
       THEN /\ fs' = [fs EXCEPT ![BackupPath(p_ds[r], Timestamp)] =
                                    BackupCopy(fs[CsvPath(p_ds[r])])]
            /\ p_backup_path' = [p_backup_path EXCEPT ![r] = BackupPath(p_ds[r], Timestamp)]
       ELSE UNCHANGED <<fs, p_backup_path>>
    /\ p_pc' = [p_pc EXCEPT ![r] = "merge"]
    /\ UNCHANGED <<descs, hists, p_ds, p_df, p_merged, p_pre, p_out>>
    /\ UNCHANGED <<saveVars, mergeVars, windowVars, restoreVars, historyVars,
                   validateVars, apiVars>>

\* Steps 2 and 3 (lines 90-112): the table is read and merged with the frame.
PairMerge(r) ==
    /\ p_pc[r] = "merge"
    /\ ~fs[CsvPath(p_ds[r])].exists \/ CanRead(fs[CsvPath(p_ds[r])])
    /\ \E io_error \in BOOLEAN :
          /\ io_error => fs[CsvPath(p_ds[r])].exists
          /\ p_merged' = [p_merged EXCEPT ![r] =
                             MergeCsvData(fs[CsvPath(p_ds[r])], p_df[r], FALSE, io_error)]
          /\ p_out' = [p_out EXCEPT ![r].merge_error = io_error]
    /\ p_pc' = [p_pc EXCEPT ![r] = "write"]
    /\ UNCHANGED <<fs, descs, hists, p_ds, p_df, p_backup_path, p_pre>>
    /\ UNCHANGED <<saveVars, mergeVars, windowVars, restoreVars, historyVars,
                   validateVars, apiVars>>

\* pd.read_csv(csv_path) of line 93 raises.
PairReadFails(r) ==
    /\ p_pc[r] = "merge"
    /\ fs[CsvPath(p_ds[r])].exists
    /\ p_out' = [p_out EXCEPT ![r].failed = "read"]
    /\ p_pc' = [p_pc EXCEPT ![r] = "rollback"]
    /\ UNCHANGED <<fs, descs, hists, p_ds, p_df, p_backup_path, p_merged, p_pre>>
    /\ UNCHANGED <<saveVars, mergeVars, windowVars, restoreVars, historyVars,
                   validateVars, apiVars>>

\* Step 4 (line 115).
PairWrite(r) ==
    /\ p_pc[r] = "write"
    /\ fs' = [fs EXCEPT ![CsvPath(p_ds[r])] = ToCsv(p_merged[r])]
    /\ p_pc' = [p_pc EXCEPT ![r] = "meta"]
    /\ UNCHANGED <<descs, hists, p_ds, p_df, p_backup_path, p_merged, p_pre, p_out>>
    /\ UNCHANGED <<saveVars, mergeVars, windowVars, restoreVars, historyVars,
                   validateVars, apiVars>>

\* to_csv of line 115 raises.
PairWriteFails(r) ==
    /\ p_pc[r] = "write"
    /\ \E f \in PartialWrites(fs[CsvPath(p_ds[r])], p_merged[r]) :
          /\ fs' = [fs EXCEPT ![CsvPath(p_ds[r])] = f]
          /\ p_out' = [p_out EXCEPT ![r].failed = "write", ![r].partial = f]
    /\ p_pc' = [p_pc EXCEPT ![r] = "rollback"]
    /\ UNCHANGED <<descs, hists, p_ds, p_df, p_backup_path, p_merged, p_pre>>
    /\ UNCHANGED <<saveVars, mergeVars, windowVars, restoreVars, historyVars,
                   validateVars, apiVars>>

\* Step 5 (lines 117-123): update_metadata_incremental(feature_name, code, ...).
PairUpdateMetadata(r) ==
    /\ p_pc[r] = "meta"
    /\ \E outcome \in MetaOutcomes :
          LET info == UpdatedInfo(descs[LastUpdatePath(p_ds[r])],
                                  fs[CsvPath(p_ds[r])], Len(p_df[r].rows), 1)
          IN  /\ descs' = IF outcome = "save_fails" THEN descs
                          ELSE [descs EXCEPT ![LastUpdatePath(p_ds[r])] = info]
              /\ hists' = IF outcome = "ok"
                          THEN [hists EXCEPT ![HistoryPath(p_ds[r])] =
                                                AddToHistory(@, info)]
                          ELSE hists
              /\ p_out' = [p_out EXCEPT ![r].meta = outcome]
    /\ p_pc' = [p_pc EXCEPT ![r] = "finish"]
    /\ UNCHANGED <<fs, p_ds, p_df, p_backup_path, p_merged, p_pre>>
    /\ UNCHANGED <<saveVars, mergeVars, windowVars, restoreVars, historyVars,
                   validateVars, apiVars>>

\* Lines 142-143: the backup is deleted.
PairFinish(r) ==
    /\ p_pc[r] = "finish"
    /\ fs' = IF p_backup_path[r] # NoPath /\ fs[p_backup_path[r]].exists
             THEN [fs EXCEPT ![p_backup_path[r]] = NoFile] ELSE fs
    /\ p_pc' = [p_pc EXCEPT ![r] = "done"]
    /\ UNCHANGED <<descs, hists, p_ds, p_df, p_backup_path, p_merged, p_pre, p_out>>
    /\ UNCHANGED <<saveVars, mergeVars, windowVars, restoreVars, historyVars,
                   validateVars, apiVars>>

\* The handler of lines 145-151: rollback_from_backup(csv_path, backup_path).
PairRollback(r) ==
    /\ p_pc[r] = "rollback"
    /\ fs' = IF p_backup_path[r] # NoPath /\ fs[p_backup_path[r]].exists
             THEN [fs EXCEPT
                     ![CsvPath(p_ds[r])] =
                         RollbackMove(fs[CsvPath(p_ds[r])], fs[p_backup_path[r]]).table,
                     ![p_backup_path[r]] =
                         RollbackMove(fs[CsvPath(p_ds[r])], fs[p_backup_path[r]]).backup]
             ELSE fs
    /\ p_pc' = [p_pc EXCEPT ![r] = "done"]
    /\ UNCHANGED <<descs, hists, p_ds, p_df, p_backup_path, p_merged, p_pre, p_out>>
    /\ UNCHANGED <<saveVars, mergeVars, windowVars, restoreVars, historyVars,
                   validateVars, apiVars>>

PairNext ==
    \E r \in Runs :
       \/ PairTakeBackup(r)
       \/ PairMerge(r)
       \/ PairReadFails(r)
       \/ PairWrite(r)
       \/ PairWriteFails(r)
       \/ PairUpdateMetadata(r)
       \/ PairFinish(r)
       \/ PairRollback(r)

SpecPair == PairInit /\ [][PairNext]_vars

\* What one iteration of the save leaves when its dataset is the only one:
\* the files of pre, the frame, and how the iteration's reads and writes went.
SoloRun(before, frame, out) ==
    LET merged == MergeCsvData(before.table, frame, FALSE, out.merge_error)
        written == ToCsv(merged)
        info == UpdatedInfo(before.meta, written, Len(frame.rows), 1)
    IN  [table |-> IF out.failed = "none" THEN written
                   ELSE IF before.table.exists THEN before.table
                   ELSE out.partial,
         meta |-> IF out.failed = "none" /\ out.meta # "save_fails"
                  THEN info ELSE before.meta,
         history |-> IF out.failed = "none" /\ out.meta = "ok"
                     THEN AddToHistory(before.history, info) ELSE before.history,
         backup |-> NoFile]

\* The files of the dataset of run r as they are now.
FilesOf(r) ==
    [table |-> fs[CsvPath(p_ds[r])],
     meta |-> descs[LastUpdatePath(p_ds[r])],
     history |-> hists[HistoryPath(p_ds[r])],
     backup |-> fs[BackupPath(p_ds[r], Timestamp)]]

\* Every request that succeeds reports its success (line 577): successes
\* keep being reported.
SpecLimiter == LimiterInit /\ [][LimiterNext]_vars /\ WF_vars(ReportSuccess)

(***************************************************************************)
(* Properties of the save (specification Spec)                             *)
(***************************************************************************)
\* The iteration of cur in incremental mode has ended.
EndOfIncrementalRun == pc = "loop" /\ cur \in Codes /\ incremental_mode /\ run.done

\* The table a complete merge of the pre-run table and the new rows gives.
CompleteMerge == ToCsv(MergeCsvData(pre.table, df, time_column, FALSE))

\* Something failed in the iteration: a step raised, the merge hit its
\* internal error, or the descriptor was not saved.
RunHadFailure ==
    run.failed # "none" \/ run.merge_error \/ (run.wrote /\ ~run.meta_saved)

\* C1: after an incremental save in which some step failed, the table file
\* holds its pre-run content or the complete merge of existing and new rows.
C1_TablePreRunOrCompleteMerge ==
    (EndOfIncrementalRun /\ RunHadFailure)
        => table[cur] \in {pre.table, CompleteMerge}

\* C2: the table existed, a backup was taken and the write of the merged
\* table failed before the metadata was saved: after the rollback the table
\* holds the rows it held before the run and the descriptor is unchanged.
C2_WriteFailureRestoresTable ==
    (EndOfIncrementalRun /\ run.failed = "write" /\ backup_path)
        => /\ table[cur] = pre.table
           /\ meta[cur] = pre.meta

\* C2 witness: the failed write had damaged a table with rows, and the
\* rollback ran.
C2_Witness ==
    /\ EndOfIncrementalRun
    /\ run.failed = "write"
    /\ backup_path
    /\ run.damaged
    /\ run.rollback = "done"
    /\ Len(pre.table.rows) >= 1
    /\ table[cur] = pre.table

\* C3: when the validation says is_valid = False (and nothing raised in the
\* run), table file, descriptor and history are left as they were before the
\* run.
C3_InvalidMergeNotPersisted ==
    (/\ EndOfIncrementalRun
     /\ run.failed = "none"
     /\ ~run.merge_error
     /\ ~validation_result.is_valid)
        => /\ table[cur] = pre.table
           /\ meta[cur] = pre.meta
           /\ history[cur] = pre.history

\* C10: in a run that took a backup and whose merge went through, while the
\* table differs from its pre-run content and the descriptor update has not
\* succeeded, the backup file still holds the pre-run content.
C10_BackupKeptUntilMetadataSaved ==
    (/\ cur \in Codes
     /\ incremental_mode
     /\ ~run.merge_error
     /\ pc \in {"meta", "finish", "rollback", "loop"}
     /\ backup_path
     /\ table[cur] # pre.table
     /\ ~run.meta_saved)
        => backup[cur] = pre.table

(***************************************************************************)
(* Properties of the merge (specification SpecMerge)                       *)
(***************************************************************************)
\* The existing rows as merge_csv_data reads them.
m_existing == IF CanRead(m_file) THEN ReadCsv(m_file) ELSE EmptyFrame

BothDated == "date" \in m_existing.cols /\ "date" \in m_new.cols

\* The composite key: date, or date and time when a time column is given.
m_keys ==
    IF m_time /\ "time" \in (m_existing.cols \cup m_new.cols)
    THEN {"date", "time"} ELSE {"date"}

\* The string form of the key of a row.
KeyText(row) == <<row.date.txt, IF "time" \in m_keys THEN row.time.txt ELSE <<>>>>

RowsOf(frame) == {frame.rows[i] : i \in 1..Len(frame.rows)}

FromNewBatch(row) == \E n \in RowsOf(m_new) : n.px = row.px

\* C4: for non-empty existing and new rows that both carry the date column,
\* the merge keeps exactly one row per composite key, and for a key of both
\* inputs the surviving row is the one of the new batch.
C4_OneRowPerKeyNewWins ==
    (m_pc = "merged" /\ ~IsEmpty(m_existing) /\ ~IsEmpty(m_new) /\ BothDated)
        => /\ \A i \in 1..Len(m_out.rows), j \in 1..Len(m_out.rows) :
                  i # j => KeyText(m_out.rows[i]) # KeyText(m_out.rows[j])
           /\ \A e \in RowsOf(m_existing), n \in RowsOf(m_new) :
                  KeyText(e) = KeyText(n)
                      => \A r \in RowsOf(m_out) :
                             KeyText(r) = KeyText(n) => FromNewBatch(r)

\* C5: an existing row and a new row whose keys have the same string form
\* but different types are one key: the merged table holds one row of it.
C5_KeysComparedAsStrings ==
    (m_pc = "merged" /\ BothDated)
        => \A e \in RowsOf(m_existing), n \in RowsOf(m_new) :
               (KeyText(e) = KeyText(n) /\ e.date.ty # n.date.ty)
                   => Cardinality({i \in 1..Len(m_out.rows) :
                                      KeyText(m_out.rows[i]) = KeyText(n)}) = 1

\* C6: for existing and new rows with overlapping keys, merging the same new
\* rows into the saved result of the first merge gives the table of the
\* first merge.
C6_MergeIdempotent ==
    (/\ m_pc = "again"
     /\ BothDated
     /\ \E e \in RowsOf(m_existing), n \in RowsOf(m_new) : KeyText(e) = KeyText(n))
        => ToCsv(m_out2) = m_saved

\* C7: when the new batch is empty the merge returns the existing rows as
\* they are read from the table: the same rows in the same order.
C7_EmptyBatchKeepsExisting ==
    (m_pc = "merged" /\ IsEmpty(m_new))
        => /\ m_out.cols = (IF CanRead(m_file) THEN m_file.cols ELSE {})
           /\ Len(m_out.rows) = (IF CanRead(m_file) THEN Len(m_file.rows) ELSE 0)
           /\ \A i \in 1..Len(m_out.rows) : m_out.rows[i] = ReadCsv(m_file).rows[i]

\* C7 witness: an empty batch merged into a table that is not sorted.
C7_Witness ==
    /\ m_pc = "merged"
    /\ IsEmpty(m_new)
    /\ "date" \in m_file.cols
    /\ Len(m_file.rows) = 2
    /\ StrLess(m_file.rows[2].date, m_file.rows[1].date)
    /\ Len(m_out.rows) = 2

\* Keys of the existing rows on the columns the merge deduplicates on.
ExistingKeys ==
    {<<e.date, IF "time" \in m_keys THEN e.time ELSE NoCell>> : e \in RowsOf(m_existing)}

KeyValueLeq(r1, r2) ==
    \/ Num(r1.date.txt) < Num(r2.date.txt)
    \/ /\ Num(r1.date.txt) = Num(r2.date.txt)
       /\ "time" \in m_keys => Num(r1.time.txt) <= Num(r2.time.txt)

\* C9: the output of the merge is non-decreasing in the key columns, for
\* every pair of inputs that carry them.
C9_OutputSortedByKey ==
    (/\ m_pc = "merged"
     /\ "date" \in m_out.cols
     /\ \A r \in RowsOf(m_out) : IsDigits(r.date.txt)
     /\ "time" \in m_keys => \A r \in RowsOf(m_out) : IsDigits(r.time.txt))
        => \A i \in 1..Len(m_out.rows), j \in 1..Len(m_out.rows) :
               i < j => KeyValueLeq(m_out.rows[i], m_out.rows[j])

\* C23: when the date column is missing from the existing rows or from the
\* new rows (both non-empty), the merge returns the existing rows followed
\* by the new rows, not deduplicated and not sorted, with and without a time
\* column.
C23_NoDateColumnGivesConcatenation ==
    (/\ m_pc = "merged"
     /\ ~IsEmpty(m_existing)
     /\ ~IsEmpty(m_new)
     /\ ("date" \notin m_existing.cols \/ "date" \notin m_new.cols))
        => m_out = Concat(m_existing, m_new)

(***************************************************************************)
(* Properties of the window (specification SpecWindow)                     *)
(***************************************************************************)
\* The descriptor of the code of the current iteration and its range end.
w_info == meta[w_code]
w_last_end == w_info.date_range.end

\* Days from the descriptor's end to today.
DaysSinceLast == DateOrdinal(w_today) - DateOrdinal(w_last_end)

FullCollection == w_range = [start |-> NoDate, end |-> w_today]

\* C11: the window is (None, today) when there is no descriptor, when its
\* date_range.end is absent, or when more than max_days_back days lie
\* between that end and today; exactly max_days_back days give a start.
C11_FullCollectionWhenStale ==
    w_code \in Codes =>
        /\ (\/ ~w_info.exists
            \/ w_last_end = NoDate
            \/ (IsDateText(w_last_end) /\ DaysSinceLast > w_max))
               => FullCollection
        /\ (w_info.exists /\ IsDateText(w_last_end) /\ DaysSinceLast = w_max)
               => w_range.start # NoDate

\* C11 witness: the end is exactly max_days_back > 0 days before today and a
\* start is returned.
C11_Witness ==
    /\ w_code \in Codes
    /\ w_info.exists
    /\ IsDateText(w_last_end)
    /\ w_max > 0
    /\ DaysSinceLast = w_max
    /\ w_range.start # NoDate

\* C12: when a start is returned it is the day after the descriptor's
\* date_range.end, it is after that end as a string too, and the end
\* returned is today.
C12_StartIsDayAfterLastEnd ==
    (w_code \in Codes /\ w_range.start # NoDate)
        => /\ IsDateText(w_range.start)
           /\ DateOrdinal(w_range.start) = DateOrdinal(w_last_end) + 1
           /\ StrLess(w_last_end, w_range.start)
           /\ w_range.end = w_today

\* C12 witness: the start is the first day of the month after the end's.
C12_Witness ==
    /\ w_code \in Codes
    /\ w_range.start # NoDate
    /\ SubSeq(w_range.start, 7, 8) = <<48, 49>>
    /\ SubSeq(w_range.start, 5, 6) # SubSeq(w_last_end, 5, 6)

C14_RestoreOverwrites ==
    r_pc = "done" =>
        IF r_before.backup.exists
        THEN table[r_code] = r_before.backup /\ r_ok
        ELSE table[r_code] = r_before.table /\ ~r_ok

\* C14 witness: a header-only table file was replaced by a backup with a row.
C14_Witness ==
    /\ r_pc = "done"
    /\ r_ok
    /\ r_before.table.exists
    /\ r_before.table.rows = <<>>
    /\ Len(r_before.backup.rows) = 1
    /\ table[r_code] = r_before.backup

(***************************************************************************)
(* Properties of the descriptors (specification Spec)                      *)
(***************************************************************************)
\* C15: whenever a descriptor is saved, its total_records is the number of
\* rows of the table file at that moment.
C15_TotalRecordsIsRowCount ==
    [][\A c \in Codes :
          meta'[c] # meta[c] => meta'[c].total_records = Len(table'[c].rows)]_vars

\* C15 witness: a descriptor saved after an incremental save counts the two
\* rows of the table, the caller having passed one new row.
C15_Witness ==
    /\ cur \in Codes
    /\ run.meta_saved
    /\ meta[cur].total_records = 2
    /\ meta[cur].new_records_added = 1
    /\ Len(table[cur].rows) = 2

\* C16: the descriptor saved by the first successful save of a dataset has
\* collection_mode full, the descriptor saved by every later one has
\* collection_mode incremental.
C16_FirstSaveIsFull ==
    [][\A c \in Codes :
          meta'[c] # meta[c]
              => meta'[c].collection_mode =
                     (IF meta[c].exists THEN "incremental" ELSE "full")]_vars

(***************************************************************************)
(* Properties of the history (specification SpecHistory)                   *)
(***************************************************************************)
\* C17: after n appends for a dataset its history holds min(n, 50) entries,
\* the most recently appended ones in append order; the count of every
\* dataset decides its own history only.
C17_HistoryKeepsLast50 ==
    \A c \in Codes :
        LET n == h_count[c]
            k == IF n <= HistoryCap THEN n ELSE HistoryCap
        IN  /\ Len(history[c]) = k
            /\ \A i \in 1..k :
                   /\ history[c][i].stamp = n - k + i
                   /\ history[c][i].records = n - k + i

\* C17 witness: 52 appends were made for A, the entries 3..52 are kept.
C17_Witness ==
    /\ h_count["A"] = HistoryCap + 2
    /\ h_count["B"] = 1
    /\ Len(history["A"]) = HistoryCap
    /\ history["A"][1].stamp = 3
    /\ history["A"][HistoryCap].stamp = HistoryCap + 2
    /\ Len(history["B"]) = 1

(***************************************************************************)
(* Properties of a batch (specification Spec)                              *)
(***************************************************************************)
\* The codes of a sequence of codes.
CodesOf(seq) == {seq[i] : i \in 1..Len(seq)}

\* C18: a step of the save changes the files of the current dataset only; a
\* failure adds one error, that of the current dataset; and when the loop
\* ends every dataset of the batch has been processed: it is among the saved
\* or among the failed.
C18_FailureStaysWithItsDataset ==
    [][/\ \A c \in Codes :
             c # cur => /\ table'[c] = table[c]
                        /\ backup'[c] = backup[c]
                        /\ meta'[c] = meta[c]
                        /\ history'[c] = history[c]
       /\ (pc' = "loop" /\ results'.errors # results.errors)
             => /\ results'.errors = Append(results.errors, cur)
                /\ results'.error_count = results.error_count + 1
                /\ results'.saved_files = results.saved_files
       /\ (pc = "loop" /\ todo = <<>> /\ pc' = "idle")
             => Cardinality(CodesOf(results.saved_files) \cup CodesOf(results.errors))
                    = results.total_files]_vars

\* C18 witness: in a batch of two the first dataset failed, leaving a file,
\* and the second was saved.
C18_Witness ==
    /\ pc = "loop"
    /\ todo = <<>>
    /\ results.total_files = 2
    /\ Len(results.errors) = 1
    /\ Len(results.saved_files) = 1
    /\ table[results.errors[1]].exists
    /\ cur = results.saved_files[1]
    /\ run.meta_saved

\* The loop over the batch has ended: save_feature_to_csv_incremental is at
\* its return statement.
AtReturn == pc = "loop" /\ todo = <<>> /\ results.total_files > 0

\* C26: when the save returns, success_count + error_count = total_files,
\* saved_files has success_count entries and errors has error_count entries.
C26_CountsAddUp ==
    AtReturn
        => /\ results.success_count + results.error_count = results.total_files
           /\ Len(results.saved_files) = results.success_count
           /\ Len(results.errors) = results.error_count

\* The run of cur met a missing descriptor, a missing table file or an empty
\* fetch result.
MetMissingInput == ~pre.meta.exists \/ ~pre.table.exists \/ IsEmpty(df)

\* C22: an incremental run that meets a missing descriptor, a missing table
\* file or an empty fetch, and in which nothing raises, is counted as saved
\* and leaves a table file the next run can read.
C22_MissingInputsAreNotErrors ==
    [][/\ (/\ pc = "write" /\ pc' = "meta"
            /\ MetMissingInput
            /\ run.failed = "none" /\ ~run.merge_error)
              => CanRead(table'[cur])
       /\ (pc = "finish" /\ pc' = "loop" /\ MetMissingInput /\ run.failed = "none")
              => /\ results'.error_count = results.error_count
                 /\ results'.success_count = results.success_count + 1]_vars

\* C24: in every descriptor on disk with both ends of date_range set and
\* total_records > 0, date_range.start <= date_range.end.
C24_RangeStartNotAfterEnd ==
    \A c \in Codes :
        (/\ meta[c].exists
         /\ meta[c].date_range.start # NoDate
         /\ meta[c].date_range.end # NoDate
         /\ meta[c].total_records > 0)
            => /\ StrLeq(meta[c].date_range.start, meta[c].date_range.end)
               /\ Num(meta[c].date_range.start) <= Num(meta[c].date_range.end)

\* C24 witness: a descriptor of a table of two rows whose range runs from
\* one day to the next.
C24_Witness ==
    \E c \in Codes :
        /\ meta[c].exists
        /\ meta[c].total_records = 2
        /\ meta[c].date_range = [start |-> D1, end |-> D2]

MissingDateColumn == ~IsEmpty(v_merged) /\ "date" \notin v_merged.cols

\* C19: is_valid is False exactly when the merged rows are not empty and the
\* date column is absent; a row count outside the expected bounds, a date
\* gap, leftover duplicates and an empty merged table give a warning each
\* and leave is_valid True.
C19_OnlyMissingDateColumnIsInvalid ==
    v_pc = "done" =>
        /\ v_result.is_valid = ~MissingDateColumn
        /\ (v_result.errors # {}) = MissingDateColumn
        /\ (\/ Len(v_merged.rows) < Len(v_old.rows)
            \/ (IsEmpty(v_old) /\ Len(v_merged.rows) < Len(v_new.rows)))
               => "fewer" \in v_result.warnings
        /\ Len(v_merged.rows) > Len(v_old.rows) + Len(v_new.rows)
               => "more" \in v_result.warnings
        /\ IsEmpty(v_merged) => "empty" \in v_result.warnings
        /\ ("date" \in v_merged.cols /\ HasDuplicatedDate(v_merged))
               => "duplicates" \in v_result.warnings
        /\ "gap" \in v_result.warnings => v_result.is_valid

\* C19 witness: more rows than expected and the same date twice; the verdict
\* is valid and carries the two warnings.
C19_Witness ==
    /\ v_pc = "done"
    /\ v_result.is_valid
    /\ v_result.warnings = {"more", "duplicates"}
    /\ v_result.errors = {}
    /\ Len(v_merged.rows) = 2

(***************************************************************************)
(* The validation of a merged table (specification SpecMerge)              *)
(***************************************************************************)
\* No key of the merge, date or (date, time), is held by two rows of m_out.
NoKeyTwice ==
    \A i \in 1..Len(m_out.rows), j \in 1..Len(m_out.rows) :
        i # j => KeyText(m_out.rows[i]) # KeyText(m_out.rows[j])

\* C20: for a merged table in which no key appears more than once, the
\* validation gives no warning of remaining duplicates, with date keys and
\* with (date, time) keys.
C20_NoDuplicateWarningAfterMerge ==
    (m_pc = "merged" /\ ~IsEmpty(m_new) /\ "date" \in m_out.cols /\ NoKeyTwice)
        => "duplicates" \notin ValidateMergedData(m_existing, m_new, m_out).warnings

(***************************************************************************)
(* Properties of the circuit breaker (specification SpecBreaker)           *)
(***************************************************************************)
\* C27: when a call that was admitted while the state was HALF_OPEN fails,
\* the state is OPEN once the call has returned, whatever the other callers did
\* in between.
C27_HalfOpenFailureReopens ==
    [][\A w \in Workers :
          (/\ b_pc[w] = "running"
           /\ b_admitted[w] = "HALF_OPEN"
           /\ b_pc'[w] = "raised")
              => state' = "OPEN"]_vars

(***************************************************************************)
(* Properties of the response cache (specification SpecCache)              *)
(***************************************************************************)
\* C28: from an empty cache, after any puts and gets the cache holds at most
\* max_size entries and access_times has exactly the keys of the cache.
C28_CacheBoundedAndKeysAgree ==
    /\ Len(cache) <= MaxSize
    /\ KeysOf(cache) = KeysOf(access_times)
    /\ Len(access_times) = Len(cache)
    /\ Cardinality(KeysOf(cache)) = Len(cache)

\* C28 witness: the cache is full and the key put first has been evicted,
\* a later key having been put after it.
C28_Witness ==
    /\ Len(cache) = MaxSize
    /\ "k1" \notin KeysOf(cache)
    /\ cache[MaxSize].key = "k3"
    /\ access_times[1].time > cache[1].time

(***************************************************************************)
(* Properties of the rate limiter (specification SpecLimiter)              *)
(***************************************************************************)
\* C29: once no more errors are reported, the reports of success bring the
\* adaptive delay back to 0.
C29_DelayReturnsToZero == (l_pc = "quiet") ~> (adaptive_delay = 0)

(***************************************************************************)
(* Properties of the date range split (specification SpecSplit)            *)
(***************************************************************************)
\* C30: for start_date <= end_date the segments are in ascending order, do
\* not overlap, and every day from start_date to end_date lies in one.
C30_SegmentsCoverRange ==
    s_pc = "done" =>
        /\ \A i \in 1..Len(splits) : splits[i].from <= splits[i].to
        /\ \A i \in 1..(Len(splits) - 1) : splits[i].to < splits[i + 1].from
        /\ \A day \in s_start..s_end :
               \E i \in 1..Len(splits) :
                   splits[i].from <= day /\ day <= splits[i].to

(***************************************************************************)
(* Properties of two saves at the same time (specification SpecPair)       *)
(***************************************************************************)
\* C21: two saves of different (feature_path, code) pairs, interleaved in any
\* order, touch disjoint files, and each leaves the table, descriptor,
\* history and backup of its dataset as a save of that dataset alone would;
\* until a save begins, the files of its dataset are as they were.
C21_DisjointRunsDoNotInterfere ==
    p_pc[1] # "off" =>
        /\ p_ds[1] # p_ds[2]
        /\ PathsOf(p_ds[1]) \cap PathsOf(p_ds[2]) = {}
        /\ \A r \in Runs :
              /\ p_pc[r] = "backup" =>
                    FilesOf(r) = [table |-> p_pre[r].table, meta |-> p_pre[r].meta,
                                  history |-> p_pre[r].history, backup |-> NoFile]
              /\ p_pc[r] = "done" => FilesOf(r) = SoloRun(p_pre[r], p_df[r], p_out[r])

\* C21 witness: two codes of one feature directory, both with a table; the
\* write of one raised after damaging its table and was rolled back, the
\* other saved new rows, and both are finished.
C21_Witness ==
    /\ p_pc[1] = "done" /\ p_pc[2] = "done"
    /\ p_ds[1].feature = p_ds[2].feature
    /\ p_pre[1].table.exists /\ p_pre[2].table.exists
    /\ p_out[1].failed = "write" /\ p_out[1].partial # p_pre[1].table
    /\ p_out[2].failed = "none" /\ p_out[2].meta = "ok"
    /\ fs[CsvPath(p_ds[2])] # p_pre[2].table
    /\ fs[CsvPath(p_ds[1])] = p_pre[1].table

====
